---- MODULE Spec2Model ----
(***************************************************************************)
(* Recommendation backend: LLM orchestration with bounded retries, the     *)
(* rule-based fallback recommender and the response validation / repair    *)
(* engine (app/services/recommend_service.py, rule_based_recommender.py,   *)
(* response_builder.py).                                                   *)
(***************************************************************************)
EXTENDS Integers, Sequences, FiniteSets, TLC

(***************************************************************************)
(* Program constants                                                       *)
(***************************************************************************)
\* RoutineTimePolicy (app/core/config.py)
MIN_TIME == 150
MAX_TIME == 210
TARGET_TIME == 180

\* ResponseBuilder class attributes
MIN_ROUTINE_TIME == MIN_TIME
MAX_ROUTINE_TIME == MAX_TIME

\* ProviderConfig.retry: Field(default=2, ge=0, le=5)
RETRY_MAX == 5

\* _create_step defaults
STEP_LIMIT_TIME == 60
STEP_DURATION_TIME == 30
STEP_TARGET_REPS == 10

\* PROGRESS_STEP_PERCENTAGE[ProgressStep.COMPLETED]
PROGRESS_COMPLETED == 100

(***************************************************************************)
(* Bounds of the model                                                     *)
(***************************************************************************)
\* steps per input routine
MaxSteps == 3
\* routines per input RecommendationOutput
MaxRoutines == 2
\* answers per survey given to the rule-based recommender
MaxAnswers == 3
\* generate calls made on one LLM client
MaxClientCalls == 2
\* largest routineCount of such a survey
MaxRoutineCount == 4
\* threads that use the exercise repository at the same time
MaxThreads == 2
\* calls made on the exercise repository in one run
MaxRepoCalls == 3
\* requests posted to the API in one run
MaxRequests == 2

(***************************************************************************)
(* Generic helpers                                                         *)
(***************************************************************************)
\* Optional[int]: None is the empty tuple, a value v is <<v>>
None == <<>>
Some(v) == <<v>>

Min(a, b) == IF a <= b THEN a ELSE b
Max(a, b) == IF a >= b THEN a ELSE b

RECURSIVE SumLimit(_)
\* sum(step.limitTime for step in steps)
SumLimit(steps) ==
    IF steps = <<>> THEN 0 ELSE Head(steps).limitTime + SumLimit(Tail(steps))

RECURSIVE SumSteps(_)
\* sum(len(r.steps) for r in routines)
SumSteps(routines) ==
    IF routines = <<>> THEN 0 ELSE Len(Head(routines).steps) + SumSteps(Tail(routines))

\* {step.exerciseId for step in steps}
IdsOf(steps) == {steps[i].exerciseId : i \in 1..Len(steps)}

\* a result that is a value, and a result that is a raised exception
Ok(v) == [ok |-> TRUE, val |-> v]
Raise(e) == [ok |-> FALSE, err |-> e]

(***************************************************************************)
(* Schemas                                                                 *)
(***************************************************************************)
BodyPart == <<"neck", "shoulder", "wrist", "lowerBack">>

\* RoutineStep; durationTime / targetReps are Optional
RoutineStep(exerciseId, type, stepOrder, limitTime, durationTime, targetReps) ==
    [exerciseId |-> exerciseId, type |-> type, stepOrder |-> stepOrder,
     limitTime |-> limitTime, durationTime |-> durationTime, targetReps |-> targetReps]

\* RoutineStep.check_exercise_type_fields
check_exercise_type_fields(s) ==
    /\ s.type = "REPS" => (s.targetReps # None /\ s.durationTime = None)
    /\ s.type = "DURATION" => (s.durationTime # None /\ s.targetReps = None)

\* Routine(...): the constructor raises ValidationError when steps is empty
\* (check_steps_not_empty) or routineOrder < 1 (Field ge=1)
Routine(routineOrder, reason, steps) ==
    IF steps = <<>> \/ routineOrder < 1
    THEN Raise("ValidationError")
    ELSE Ok([routineOrder |-> routineOrder, reason |-> reason, steps |-> steps])

(***************************************************************************)
(* Rule-based recommender (app/services/rule_based_recommender.py)         *)
(***************************************************************************)
\* KEYWORD_TO_BODY_PART in dict order. A string is the sequence of its
\* characters; each Hangul syllable is one character, written here in
\* romanised form: "mok" (neck), "eo" "kkae" (shoulder), "son" "mok" (wrist),
\* "heo" "ri" (lower back)
KEYWORD_TO_BODY_PART ==
    << [keyword |-> <<"mok">>, body_part |-> "neck"],
       [keyword |-> <<"eo", "kkae">>, body_part |-> "shoulder"],
       [keyword |-> <<"son", "mok">>, body_part |-> "wrist"],
       [keyword |-> <<"heo", "ri">>, body_part |-> "lowerBack"] >>

\* Python's `keyword in question` on strings: a contiguous occurrence
Contains(keyword, question) ==
    \E i \in 0..(Len(question) - Len(keyword)) :
        \A j \in 1..Len(keyword) : question[i + j] = keyword[j]

\* the for/break over KEYWORD_TO_BODY_PART.items(): index of the first
\* keyword contained in the question, 0 when none is
FirstKeyword(question) ==
    LET hits == {k \in 1..Len(KEYWORD_TO_BODY_PART) :
                    Contains(KEYWORD_TO_BODY_PART[k].keyword, question)}
    IN IF hits = {} THEN 0 ELSE CHOOSE k \in hits : \A m \in hits : k <= m

\* scores[body_part] = max(scores.get(body_part, 0), score) on a dict kept
\* as the sequence of its items in insertion order
PutMax(scores, body_part, score) ==
    IF \E i \in 1..Len(scores) : scores[i].part = body_part
    THEN [i \in 1..Len(scores) |->
            IF scores[i].part = body_part
            THEN [part |-> body_part, score |-> Max(scores[i].score, score)]
            ELSE scores[i]]
    ELSE Append(scores, [part |-> body_part, score |-> Max(0, score)])

RECURSIVE ExtractLoop(_, _)
ExtractLoop(answers, scores) ==
    IF answers = <<>> THEN scores
    ELSE LET answer == Head(answers)
             k == FirstKeyword(answer.questionContent)
         IN ExtractLoop(Tail(answers),
                IF k = 0 THEN scores
                ELSE PutMax(scores, KEYWORD_TO_BODY_PART[k].body_part,
                            answer.selectedOptionSortOrder))

\* RuleBasedRecommender._extract_pain_scores
extract_pain_scores(survey) == ExtractLoop(survey.survey, <<>>)

RECURSIVE InsertDesc(_, _)
\* stable insertion of x after every element whose score is >= x.score
InsertDesc(sorted, x) ==
    IF sorted = <<>> THEN <<x>>
    ELSE IF Head(sorted).score >= x.score
         THEN <<Head(sorted)>> \o InsertDesc(Tail(sorted), x)
         ELSE <<x>> \o sorted

RECURSIVE SortedDesc(_, _)
SortedDesc(items, acc) ==
    IF items = <<>> THEN acc ELSE SortedDesc(Tail(items), InsertDesc(acc, Head(items)))

\* sorted(pain_scores.items(), key=lambda x: x[1], reverse=True): stable
sorted_parts_of(pain_scores) == SortedDesc(pain_scores, <<>>)

\* sorted_parts[i:] + sorted_parts[:i] with Python slice clamping
rotated_parts_of(sorted_parts, i) ==
    SubSeq(sorted_parts, i + 1, Len(sorted_parts))
        \o SubSeq(sorted_parts, 1, Min(i, Len(sorted_parts)))

\* variant: the REPS branch also sets durationTime
create_step_reps_with_duration(exercise, step_order) ==
    IF exercise.type = "DURATION"
    THEN RoutineStep(exercise.exerciseId, "DURATION", step_order,
                     STEP_LIMIT_TIME, Some(STEP_DURATION_TIME), None)
    ELSE RoutineStep(exercise.exerciseId, "REPS", step_order,
                     STEP_LIMIT_TIME, Some(STEP_DURATION_TIME), Some(STEP_TARGET_REPS))

\* RuleBasedRecommender._create_step
create_step(exercise, step_order) ==
    IF exercise.type = "DURATION"
    THEN RoutineStep(exercise.exerciseId, "DURATION", step_order,
                     STEP_LIMIT_TIME, Some(STEP_DURATION_TIME), None)
    ELSE RoutineStep(exercise.exerciseId, "REPS", step_order,
                     STEP_LIMIT_TIME, None, Some(STEP_TARGET_REPS))

\* self._exercises_by_part.get(body_part, []): the catalog's exercises of
\* that part in catalog order (_group_by_body_part)
exercises_by_part(catalog, body_part) ==
    SelectSeq(catalog, LAMBDA e : e.bodyPart = body_part)


RECURSIVE PullFrom_ignores_used(_, _, _)
\* variant: without the check against used_exercise_ids
PullFrom_ignores_used(exercises, st, limit) ==
    IF exercises = <<>> THEN st
    ELSE LET exercise == Head(exercises)
             step == create_step(exercise, Len(st.steps) + 1)
             st2 == [steps |-> Append(st.steps, step),
                     used |-> st.used \cup {exercise.exerciseId},
                     total |-> st.total + step.limitTime]
         IN IF st2.total >= limit THEN st2
            ELSE PullFrom_ignores_used(Tail(exercises), st2, limit)

RECURSIVE PullFrom(_, _, _)
\* the inner loop of _create_routine: add every not-yet-used exercise and
\* break once total_time reaches the limit. st = [steps, used, total]
PullFrom(exercises, st, limit) ==
    IF exercises = <<>> THEN st
    ELSE LET exercise == Head(exercises) IN
         IF exercise.exerciseId \in st.used
         THEN PullFrom(Tail(exercises), st, limit)
         ELSE LET step == create_step(exercise, Len(st.steps) + 1)
                  st2 == [steps |-> Append(st.steps, step),
                          used |-> st.used \cup {exercise.exerciseId},
                          total |-> st.total + step.limitTime]
              IN IF st2.total >= limit THEN st2
                 ELSE PullFrom(Tail(exercises), st2, limit)

RECURSIVE PullParts(_, _, _)
\* the outer loop of _create_routine over sorted_parts
PullParts(parts, st, catalog) ==
    IF parts = <<>> \/ st.total >= TARGET_TIME THEN st
    ELSE PullParts(Tail(parts),
                   PullFrom(exercises_by_part(catalog, Head(parts).part), st, TARGET_TIME),
                   catalog)

\* variant: without the loop that tops the routine up to the minimum time
create_routine_no_min_fill(routine_order, sorted_parts, catalog) ==
    LET st0 == [steps |-> <<>>, used |-> {}, total |-> 0]
        st1 == PullParts(sorted_parts, st0, catalog)
        reason == IF sorted_parts # <<>> THEN sorted_parts[1].part ELSE "full_body"
    IN Routine(routine_order, reason, st1.steps)

\* RuleBasedRecommender._create_routine
create_routine(routine_order, sorted_parts, catalog) ==
    LET st0 == [steps |-> <<>>, used |-> {}, total |-> 0]
        st1 == PullParts(sorted_parts, st0, catalog)
        st2 == IF st1.total < MIN_TIME THEN PullFrom(catalog, st1, MIN_TIME) ELSE st1
        reason == IF sorted_parts # <<>> THEN sorted_parts[1].part ELSE "full_body"
    IN Routine(routine_order, reason, st2.steps)


RECURSIVE FillerLoop_strict(_, _, _, _, _)
\* variant: the loop breaks on current_time > target_time
FillerLoop_strict(exercises, target_time, exclude_ids, steps, current_time) ==
    IF exercises = <<>> THEN steps
    ELSE IF Head(exercises).exerciseId \in exclude_ids
         THEN FillerLoop_strict(Tail(exercises), target_time, exclude_ids, steps, current_time)
         ELSE IF current_time > target_time THEN steps
              ELSE LET step == create_step(Head(exercises), Len(steps) + 1)
                   IN FillerLoop_strict(Tail(exercises), target_time, exclude_ids,
                                        Append(steps, step), current_time + step.limitTime)

RECURSIVE FillerLoop(_, _, _, _, _)
FillerLoop(exercises, target_time, exclude_ids, steps, current_time) ==
    IF exercises = <<>> THEN steps
    ELSE IF Head(exercises).exerciseId \in exclude_ids
         THEN FillerLoop(Tail(exercises), target_time, exclude_ids, steps, current_time)
         ELSE IF current_time >= target_time THEN steps
              ELSE LET step == create_step(Head(exercises), Len(steps) + 1)
                   IN FillerLoop(Tail(exercises), target_time, exclude_ids,
                                 Append(steps, step), current_time + step.limitTime)

\* variant: exclude_ids is ignored
get_filler_steps_no_exclude(catalog, target_time, exclude_ids) ==
    FillerLoop(catalog, target_time, {}, <<>>, 0)

\* RuleBasedRecommender.get_filler_steps
get_filler_steps(catalog, target_time, exclude_ids) ==
    FillerLoop(catalog, target_time, exclude_ids, <<>>, 0)

RECURSIVE RoutinesLoop_order_from_zero(_, _, _, _, _)
\* variant: routine_order=i instead of i + 1
RoutinesLoop_order_from_zero(i, routine_count, sorted_parts, catalog, routines) ==
    IF i >= routine_count THEN Ok([routines |-> routines])
    ELSE LET r == create_routine(i, rotated_parts_of(sorted_parts, i), catalog)
         IN IF ~r.ok THEN r
            ELSE RoutinesLoop_order_from_zero(i + 1, routine_count, sorted_parts, catalog,
                                              Append(routines, r.val))

RECURSIVE RoutinesLoop(_, _, _, _, _)
\* for i in range(routine_count): the first constructor failure propagates
RoutinesLoop(i, routine_count, sorted_parts, catalog, routines) ==
    IF i >= routine_count THEN Ok([routines |-> routines])
    ELSE LET r == create_routine(i + 1, rotated_parts_of(sorted_parts, i), catalog)
         IN IF ~r.ok THEN r
            ELSE RoutinesLoop(i + 1, routine_count, sorted_parts, catalog,
                              Append(routines, r.val))

\* variant: range(survey.routineCount) without max(1, ...)
rule_recommend_routines_no_max(survey, catalog) ==
    RoutinesLoop(0, survey.routineCount,
                 sorted_parts_of(extract_pain_scores(survey)), catalog, <<>>)

\* RuleBasedRecommender.recommend_routines
rule_recommend_routines(survey, catalog) ==
    RoutinesLoop(0, Max(1, survey.routineCount),
                 sorted_parts_of(extract_pain_scores(survey)), catalog, <<>>)

(***************************************************************************)
(* Response builder (app/services/response_builder.py)                     *)
(***************************************************************************)
\* ResponseBuilder._filter_valid_exercises
filter_valid_exercises(steps, valid_exercise_ids) ==
    LET valid_steps == SelectSeq(steps, LAMBDA step : step.exerciseId \in valid_exercise_ids)
    IN IF valid_steps = <<>> THEN Raise("RoutineValidationError") ELSE Ok(valid_steps)


RECURSIVE InsertByStepOrder(_, _)
InsertByStepOrder(sorted, step) ==
    IF sorted = <<>> THEN <<step>>
    ELSE IF Head(sorted).stepOrder <= step.stepOrder
         THEN <<Head(sorted)>> \o InsertByStepOrder(Tail(sorted), step)
         ELSE <<step>> \o sorted

RECURSIVE SortByStepOrder(_, _)
SortByStepOrder(steps, acc) ==
    IF steps = <<>> THEN acc
    ELSE SortByStepOrder(Tail(steps), InsertByStepOrder(acc, Head(steps)))

\* variant: the steps are sorted by the stepOrder they carry before they are
\* renumbered
reorder_steps_sorted(steps) ==
    LET sorted == SortByStepOrder(steps, <<>>)
    IN [idx \in 1..Len(sorted) |->
           RoutineStep(sorted[idx].exerciseId, sorted[idx].type, idx, sorted[idx].limitTime,
                       sorted[idx].durationTime, sorted[idx].targetReps)]

\* ResponseBuilder._reorder_steps
reorder_steps(steps) ==
    [idx \in 1..Len(steps) |->
        RoutineStep(steps[idx].exerciseId, steps[idx].type, idx, steps[idx].limitTime,
                    steps[idx].durationTime, steps[idx].targetReps)]

RECURSIVE TrimLoop(_, _, _)
\* the for/break of _trim_steps_to_fit
TrimLoop(steps, trimmed_steps, current_time) ==
    IF steps = <<>> THEN trimmed_steps
    ELSE IF current_time + Head(steps).limitTime > MAX_ROUTINE_TIME THEN trimmed_steps
         ELSE TrimLoop(Tail(steps), Append(trimmed_steps, Head(steps)),
                       current_time + Head(steps).limitTime)

\* ResponseBuilder._trim_steps_to_fit
\* variant: a step that does not fit is skipped and the loop goes on
\* (continue in place of break)
RECURSIVE TrimLoopContinue(_, _, _)
TrimLoopContinue(steps, trimmed_steps, current_time) ==
    IF steps = <<>> THEN trimmed_steps
    ELSE IF current_time + Head(steps).limitTime > MAX_ROUTINE_TIME
         THEN TrimLoopContinue(Tail(steps), trimmed_steps, current_time)
         ELSE TrimLoopContinue(Tail(steps), Append(trimmed_steps, Head(steps)),
                               current_time + Head(steps).limitTime)

trim_steps_to_fit_continue(steps) ==
    LET trimmed_steps == TrimLoopContinue(steps, <<>>, 0)
    IN [idx \in 1..Len(trimmed_steps) |->
          RoutineStep(trimmed_steps[idx].exerciseId, trimmed_steps[idx].type, idx,
                      trimmed_steps[idx].limitTime, trimmed_steps[idx].durationTime,
                      trimmed_steps[idx].targetReps)]

trim_steps_to_fit(steps) ==
    LET trimmed_steps == TrimLoop(steps, <<>>, 0)
    IN [idx \in 1..Len(trimmed_steps) |->
          RoutineStep(trimmed_steps[idx].exerciseId, trimmed_steps[idx].type, idx,
                      trimmed_steps[idx].limitTime, trimmed_steps[idx].durationTime,
                      trimmed_steps[idx].targetReps)]

\* variant: the merged list is returned without renumbering
fill_time_gap_no_reorder(steps, current_time, catalog) ==
    steps \o get_filler_steps(catalog, MIN_ROUTINE_TIME - current_time, IdsOf(steps))

\* ResponseBuilder._fill_time_gap
fill_time_gap(steps, current_time, catalog) ==
    LET needed_time == MIN_ROUTINE_TIME - current_time
        used_ids == IdsOf(steps)
        filler_steps == get_filler_steps(catalog, needed_time, used_ids)
    IN IF filler_steps = <<>> THEN steps
       ELSE reorder_steps(steps \o filler_steps)

\* variant: an over-time routine is accepted as it is
validate_total_time_no_trim(steps, catalog) ==
    IF SumLimit(steps) >= MIN_ROUTINE_TIME THEN steps
    ELSE fill_time_gap(steps, SumLimit(steps), catalog)

\* ResponseBuilder._validate_total_time
validate_total_time(steps, catalog) ==
    LET total_time == SumLimit(steps)
    IN IF MIN_ROUTINE_TIME <= total_time /\ total_time <= MAX_ROUTINE_TIME THEN steps
       ELSE IF total_time > MAX_ROUTINE_TIME THEN trim_steps_to_fit(steps)
       ELSE fill_time_gap(steps, total_time, catalog)

\* variant: the routine keeps the routineOrder it came with
validate_single_routine_keep_order(routine, expected_order, valid_exercise_ids, catalog) ==
    IF routine.steps = <<>> THEN Raise("RoutineValidationError")
    ELSE LET filtered == IF valid_exercise_ids # {}
                         THEN filter_valid_exercises(routine.steps, valid_exercise_ids)
                         ELSE Ok(routine.steps)
         IN IF ~filtered.ok THEN filtered
            ELSE Routine(routine.routineOrder, routine.reason,
                         validate_total_time(reorder_steps(filtered.val), catalog))


\* variant: the steps are filtered also when the valid-ID set is empty
validate_single_routine_always_filters(routine, expected_order, valid_exercise_ids, catalog) ==
    IF routine.steps = <<>> THEN Raise("RoutineValidationError")
    ELSE LET filtered == filter_valid_exercises(routine.steps, valid_exercise_ids)
         IN IF ~filtered.ok THEN filtered
            ELSE Routine(expected_order, routine.reason,
                         validate_total_time(reorder_steps(filtered.val), catalog))

\* ResponseBuilder._validate_single_routine
validate_single_routine(routine, expected_order, valid_exercise_ids, catalog) ==
    IF routine.steps = <<>> THEN Raise("RoutineValidationError")
    ELSE LET filtered == IF valid_exercise_ids # {}
                         THEN filter_valid_exercises(routine.steps, valid_exercise_ids)
                         ELSE Ok(routine.steps)
         IN IF ~filtered.ok THEN filtered
            ELSE Routine(expected_order, routine.reason,
                         validate_total_time(reorder_steps(filtered.val), catalog))

RECURSIVE ValidateLoop_skips_invalid(_, _, _, _, _)
\* variant: a routine that fails validation is left out and the loop goes on
ValidateLoop_skips_invalid(routines, idx, validated, valid_exercise_ids, catalog) ==
    IF idx > Len(routines)
    THEN IF validated = <<>> THEN Raise("RoutineValidationError") ELSE Ok(validated)
    ELSE LET fixed_routine ==
                 validate_single_routine(routines[idx], Len(validated) + 1,
                                         valid_exercise_ids, catalog)
         IN IF ~fixed_routine.ok
            THEN ValidateLoop_skips_invalid(routines, idx + 1, validated,
                                            valid_exercise_ids, catalog)
            ELSE ValidateLoop_skips_invalid(routines, idx + 1,
                                            Append(validated, fixed_routine.val),
                                            valid_exercise_ids, catalog)

RECURSIVE ValidateLoop(_, _, _, _, _)
\* for idx, routine in enumerate(routines): the first failure propagates
ValidateLoop(routines, idx, validated, valid_exercise_ids, catalog) ==
    IF idx > Len(routines) THEN Ok(validated)
    ELSE LET fixed_routine ==
                 validate_single_routine(routines[idx], idx, valid_exercise_ids, catalog)
         IN IF ~fixed_routine.ok THEN fixed_routine
            ELSE ValidateLoop(routines, idx + 1, Append(validated, fixed_routine.val),
                              valid_exercise_ids, catalog)

\* ResponseBuilder._validate_and_fix
validate_and_fix(routines, valid_exercise_ids, catalog) ==
    IF routines = <<>> THEN Raise("RoutineValidationError")
    ELSE ValidateLoop(routines, 1, <<>>, valid_exercise_ids, catalog)

\* variant: total_exercises counts the routines instead of their steps
create_response_counts_routines(validated_routines, task_id) ==
    [taskId |-> task_id, status |-> "COMPLETED", progress |-> PROGRESS_COMPLETED,
     summary |-> Some([totalRoutines |-> Len(validated_routines),
                       totalExercises |-> Len(validated_routines)]),
     errorMessage |-> None, completedAt |-> Some("now"),
     routines |-> Some(validated_routines)]

\* ResponseBuilder._create_response
create_response(validated_routines, task_id) ==
    [taskId |-> task_id, status |-> "COMPLETED", progress |-> PROGRESS_COMPLETED,
     summary |-> Some([totalRoutines |-> Len(validated_routines),
                       totalExercises |-> SumSteps(validated_routines)]),
     errorMessage |-> None, completedAt |-> Some("now"),
     routines |-> Some(validated_routines)]

\* variant: the COMPLETED check looks at summary only
check_completed_status_fields_summary_only(status, summary, routines) ==
    status = "COMPLETED" => summary # None

\* RecommendationResponseV1.check_completed_status_fields
check_completed_status_fields(status, summary, routines) ==
    status = "COMPLETED" => (summary # None /\ routines # None)

\* RecommendationResponseV1(...): the constructor raises ValidationError
\* when progress is outside 0..100 (Field ge=0, le=100) or the model
\* validator fails
RecommendationResponseV1(taskId, status, progress, currentStep, summary, errorMessage, completedAt, routines) ==
    IF progress < 0 \/ progress > PROGRESS_COMPLETED
       \/ ~check_completed_status_fields(status, summary, routines)
    THEN Raise("ValidationError")
    ELSE Ok([taskId |-> taskId, status |-> status, progress |-> progress,
             currentStep |-> currentStep, summary |-> summary,
             errorMessage |-> errorMessage, completedAt |-> completedAt,
             routines |-> routines])

\* variant: the message is not passed on
build_failed_drops_message(task_id, error_message) ==
    RecommendationResponseV1(task_id, "FAILED", 0, "failed", None, None,
                             Some("now"), None)

\* ResponseBuilder.build_failed
build_failed(task_id, error_message) ==
    RecommendationResponseV1(task_id, "FAILED", 0, "failed", None,
                             Some(error_message), Some("now"), None)

\* the outcome of one build call: the response or the exception, with the
\* number of normalization passes and of rule-based recommend_routines calls
BuildResult(ok, val, err, passes, fallback_calls) ==
    [ok |-> ok, val |-> val, err |-> err, passes |-> passes,
     fallback_calls |-> fallback_calls]

\* ResponseBuilder.build; survey is Optional
\* variant: a failed normalization of the fallback output is answered by
\* another fallback-and-normalization cycle
build_fallback_again(output, task_id, survey, valid_exercise_ids, catalog) ==
    LET first == validate_and_fix(output.routines, valid_exercise_ids, catalog)
    IN IF first.ok
       THEN BuildResult(TRUE, create_response(first.val, task_id), "", 1, 0)
       ELSE IF first.err # "RoutineValidationError" \/ survey = None
       THEN BuildResult(FALSE, None, first.err, 1, 0)
       ELSE LET fallback_output == rule_recommend_routines(survey[1], catalog)
            IN IF ~fallback_output.ok
               THEN BuildResult(FALSE, None, fallback_output.err, 1, 1)
               ELSE LET second == validate_and_fix(fallback_output.val.routines,
                                                   valid_exercise_ids, catalog)
                    IN IF second.ok
                       THEN BuildResult(TRUE, create_response(second.val, task_id), "", 2, 1)
                       ELSE BuildResult(FALSE, None, second.err, 3, 2)

build(output, task_id, survey, valid_exercise_ids, catalog) ==
    LET first == validate_and_fix(output.routines, valid_exercise_ids, catalog)
    IN IF first.ok
       THEN BuildResult(TRUE, create_response(first.val, task_id), "", 1, 0)
       ELSE IF first.err # "RoutineValidationError"
       THEN BuildResult(FALSE, None, first.err, 1, 0)
       ELSE IF survey = None
       THEN BuildResult(FALSE, None, first.err, 1, 0)
       ELSE LET fallback_output == rule_recommend_routines(survey[1], catalog)
            IN IF ~fallback_output.ok
               THEN BuildResult(FALSE, None, fallback_output.err, 1, 1)
               ELSE LET second == validate_and_fix(fallback_output.val.routines,
                                                   valid_exercise_ids, catalog)
                    IN IF second.ok
                       THEN BuildResult(TRUE, create_response(second.val, task_id), "", 2, 1)
                       ELSE BuildResult(FALSE, None, second.err, 2, 1)

(***************************************************************************)
(* Recommend service (app/services/recommend_service.py)                   *)
(***************************************************************************)
\* variant: the authentication error is retried like the others
RETRYABLE_ERRORS_with_auth ==
    {"LLMTimeoutError", "LLMNetworkError", "LLMInvalidResponseError",
     "LLMAuthenticationError"}

\* RETRYABLE_ERRORS
RETRYABLE_ERRORS == {"LLMTimeoutError", "LLMNetworkError", "LLMInvalidResponseError"}

\* the LLMError subclasses LLMClient.generate may raise
LLM_ERRORS == RETRYABLE_ERRORS \cup {"LLMAuthenticationError"}

\* an exception instance: its class, the 1-based attempt that raised it,
\* where it was raised and its __cause__ (Optional)
Error(kind, attempt, origin, cause) ==
    [kind |-> kind, attempt |-> attempt, origin |-> origin, cause |-> cause]

\* LLMRoutineOutput.model_validate(data): the field constraints and the
\* model validators of Routine and RoutineStep
model_validate(data) ==
    \A r \in 1..Len(data.routines) :
        /\ data.routines[r].routineOrder >= 1
        /\ data.routines[r].steps # <<>>
        /\ \A i \in 1..Len(data.routines[r].steps) :
              LET step == data.routines[r].steps[i]
              IN /\ step.stepOrder >= 1
                 /\ step.limitTime >= 0
                 /\ check_exercise_type_fields(step)

\* variant: an output without routines is rejected like a schema violation
parse_response_rejects_empty(raw, attempt) ==
    IF ~raw.json
    THEN Raise(Error("LLMInvalidResponseError", attempt, "json", None))
    ELSE IF ~model_validate(raw.data) \/ raw.data.routines = <<>>
    THEN Raise(Error("LLMInvalidResponseError", attempt, "schema", None))
    ELSE Ok(raw.data)

\* RecommendService._parse_response; raw is the returned text: whether it
\* is JSON at all, and the decoded data when it is
parse_response(raw, attempt) ==
    IF ~raw.json
    THEN Raise(Error("LLMInvalidResponseError", attempt, "json", None))
    ELSE IF ~model_validate(raw.data)
    THEN Raise(Error("LLMInvalidResponseError", attempt, "schema", None))
    ELSE Ok(raw.data)

\* one call of self._llm.generate followed by _parse_response: outcome is
\* what the client did, an exception of LLM_ERRORS or a returned text
generate_and_parse(outcome, attempt) ==
    IF outcome.raises
    THEN Raise(Error(outcome.kind, attempt, "generate", None))
    ELSE parse_response(outcome.text, attempt)

\* variant: only the first failure is remembered
record_error_first(last_error, e) == IF last_error = None THEN Some(e) ELSE last_error

\* last_error = e in both except clauses
record_error(last_error, e) == Some(e)

\* variant: range(self._max_retries)
attempt_budget_short(max_retries) == max_retries

\* variant: range(self._max_retries + 2)
attempt_budget_extra(max_retries) == max_retries + 2

\* for attempt in range(self._max_retries + 1): the number of iterations
attempt_budget(max_retries) == max_retries + 1

\* variant: the error is raised whether or not fallback is enabled
after_loop_always_raises(last_error, fallback_enabled, survey, catalog) ==
    Raise(Error("LLMInvalidResponseError", 0, "recommend_routines", last_error))

\* the statements after the retry loop of recommend_routines; the rule-based
\* recommender exists exactly when fallback is enabled (__init__)
after_loop(last_error, fallback_enabled, survey, catalog) ==
    IF fallback_enabled
    THEN LET out == rule_recommend_routines(survey, catalog)
         IN IF out.ok THEN out
            ELSE Raise(Error(out.err, 0, "rule_based", None))
    ELSE Raise(Error("LLMInvalidResponseError", 0, "recommend_routines", last_error))

(***************************************************************************)
(* LLM clients (app/services/llm_clients/ollama_client.py,                 *)
(* openai_client.py)                                                       *)
(***************************************************************************)
\* the classes an exception raised by a provider SDK call is an instance
\* of: its own class and its base classes (httpx, ollama, openai, pydantic
\* and the built-ins)
ClassesOf(exc) ==
    CASE exc = "httpx.ConnectTimeout" -> {exc, "httpx.TimeoutException"}
      [] exc = "httpx.ReadTimeout" -> {exc, "httpx.TimeoutException"}
      [] exc = "openai.APITimeoutError" ->
            {exc, "openai.APIConnectionError", "openai.APIError"}
      [] exc = "openai.APIConnectionError" -> {exc, "openai.APIError"}
      [] exc = "openai.APIResponseValidationError" -> {exc, "openai.APIError"}
      [] exc \in {"openai.InternalServerError", "openai.AuthenticationError",
                  "openai.RateLimitError", "openai.BadRequestError",
                  "openai.PermissionDeniedError", "openai.NotFoundError"} ->
            {exc, "openai.APIStatusError", "openai.APIError"}
      [] OTHER -> {exc}

\* an exception leaving generate: an LLMError subclass raised by the client,
\* or the SDK's exception itself when no except clause matches it
ClientError(kind) == [kind |-> kind, mapped |-> TRUE]
Unhandled(exc) == [kind |-> exc, mapped |-> FALSE]

\* str.strip() on a text kept as the sequence of its characters
Whitespace == {" ", "nl"}
RECURSIVE LStrip(_)
LStrip(text) ==
    IF text # <<>> /\ Head(text) \in Whitespace THEN LStrip(Tail(text)) ELSE text
RECURSIVE RStrip(_)
RStrip(text) ==
    IF text # <<>> /\ text[Len(text)] \in Whitespace
    THEN RStrip(SubSeq(text, 1, Len(text) - 1)) ELSE text
Strip(text) == RStrip(LStrip(text))

\* OllamaClient._handle_response_error
handle_response_error(status) ==
    IF status = 400 THEN Raise(ClientError("LLMInvalidResponseError"))
    ELSE IF status = 401 THEN Raise(ClientError("LLMAuthenticationError"))
    ELSE IF status = 404 THEN Raise(ClientError("LLMInvalidResponseError"))
    ELSE IF status = 429 THEN Raise(ClientError("LLMNetworkError"))
    ELSE IF status = 500 THEN Raise(ClientError("LLMNetworkError"))
    ELSE IF status = 502 THEN Raise(ClientError("LLMNetworkError"))
    ELSE Raise(ClientError("LLMNetworkError"))

\* OllamaClient.generate; outcome is what self._client.generate did: raised
\* exc (with the HTTP status of a ResponseError) or returned an object whose
\* response attribute exists or not and is a str or not
ollama_generate(outcome) ==
    IF outcome.raises
    THEN IF "httpx.TimeoutException" \in ClassesOf(outcome.exc)
         THEN Raise(ClientError("LLMTimeoutError"))
         ELSE IF "ollama.ResponseError" \in ClassesOf(outcome.exc)
         THEN handle_response_error(outcome.status)
         ELSE IF "ollama.RequestError" \in ClassesOf(outcome.exc)
         THEN Raise(ClientError("LLMNetworkError"))
         ELSE Raise(Unhandled(outcome.exc))
    ELSE IF ~outcome.has_attr
         THEN Raise(ClientError("LLMInvalidResponseError"))
         ELSE IF ~outcome.is_str
         THEN Raise(ClientError("LLMInvalidResponseError"))
         ELSE Ok(Strip(outcome.content))

\* OpenAIClient.generate; outcome is what self._client.responses.parse did:
\* raised exc or returned an object whose output_parsed attribute exists or
\* not and is None or a parsed model
openai_generate(outcome) ==
    IF outcome.raises
    THEN LET classes == ClassesOf(outcome.exc)
         IN IF "TimeoutError" \in classes
            THEN Raise(ClientError("LLMTimeoutError"))
            ELSE IF "openai.APITimeoutError" \in classes
            THEN Raise(ClientError("LLMTimeoutError"))
            ELSE IF "openai.APIConnectionError" \in classes
            THEN Raise(ClientError("LLMNetworkError"))
            ELSE IF "openai.InternalServerError" \in classes
            THEN Raise(ClientError("LLMNetworkError"))
            ELSE IF "openai.AuthenticationError" \in classes
            THEN Raise(ClientError("LLMAuthenticationError"))
            ELSE IF "openai.RateLimitError" \in classes
            THEN Raise(ClientError("LLMNetworkError"))
            ELSE IF "openai.APIError" \in classes
            THEN Raise(ClientError("LLMNetworkError"))
            ELSE Raise(Unhandled(outcome.exc))
    ELSE IF ~outcome.has_attr
         THEN Raise(ClientError("LLMInvalidResponseError"))
         ELSE IF outcome.parsed = None
         THEN Raise(ClientError("LLMInvalidResponseError"))
         ELSE Ok([json |-> TRUE, data |-> outcome.parsed[1]])

(***************************************************************************)
(* Exercise repository (app/data/loader.py, app/api/v1/data.py)            *)
(***************************************************************************)
\* Exercise.model_validate of one raw record: the enum fields hold a member
Exercise_model_validate(e) ==
    IF e.type \in {"REPS", "DURATION"} /\ e.bodyPart \in {BodyPart[i] : i \in 1..Len(BodyPart)}
    THEN Ok(e)
    ELSE Raise("ValidationError")

\* fetch_and_save_exercises(url): what the GET did decides the exception or
\* the list written to exercises.json; file is the content before the call
fetch_and_save_exercises(outcome, file) ==
    CASE outcome.kind = "RequestError" -> [result |-> Raise("RequestError"), file |-> file]
      [] outcome.kind = "HTTPStatusError" -> [result |-> Raise("HTTPStatusError"), file |-> file]
      [] outcome.kind = "JSONDecodeError" -> [result |-> Raise("JSONDecodeError"), file |-> file]
      [] outcome.kind = "not_list" -> [result |-> Raise("ValueError"), file |-> file]
      [] outcome.kind = "list" -> [result |-> Ok(None), file |-> Some(outcome.data)]

\* ExerciseRepository.load on the cache repo with exercises.json holding file
load(repo, file) ==
    IF repo.loaded THEN [result |-> Ok(None), repo |-> repo]
    ELSE IF file = None THEN [result |-> Raise("FileNotFoundError"), repo |-> repo]
    ELSE LET data == file[1]
         IN IF \E i \in 1..Len(data) : ~Exercise_model_validate(data[i]).ok
            THEN [result |-> Raise("ValidationError"), repo |-> repo]
            ELSE [result |-> Ok(None),
                  repo |-> [loaded |-> TRUE,
                            exercise_ids |-> {data[i].exerciseId : i \in 1..Len(data)},
                            raw_data |-> data]]

\* _ensure_loaded: load unless already loaded
ensure_loaded(repo, file) ==
    IF ~repo.loaded THEN load(repo, file) ELSE [result |-> Ok(None), repo |-> repo]

\* the exercise_ids property
get_exercise_ids(repo, file) ==
    LET r == ensure_loaded(repo, file)
    IN IF r.result.ok THEN [result |-> Ok(r.repo.exercise_ids), repo |-> r.repo] ELSE r

\* the raw_data property
get_raw_data(repo, file) ==
    LET r == ensure_loaded(repo, file)
    IN IF r.result.ok THEN [result |-> Ok(r.repo.raw_data), repo |-> r.repo] ELSE r

\* POST /exercises/update: fetch_and_save_exercises is called without its
\* url argument, which raises TypeError before any request is made; the
\* handler turns every exception of the fetch into ExerciseDataError
update_exercises(repo, file) ==
    LET fetched == Raise("TypeError")
    IN IF ~fetched.ok THEN [result |-> Raise("ExerciseDataError"), repo |-> repo]
       ELSE LET r == load(repo, file)
            IN IF ~r.result.ok THEN [result |-> Raise("ExerciseDataError"), repo |-> repo]
               ELSE [result |-> Ok(Cardinality(get_exercise_ids(r.repo, file).result.val)),
                     repo |-> r.repo]

TaskId == "task"

(***************************************************************************)
(* HTTP API (app/api/v1/recommend.py, app/core/exceptions.py, app/main.py)  *)
(***************************************************************************)
\* the classes of an application exception, itself included
AppClassesOf(exc) ==
    CASE exc \in {"RoutineValidationError", "ConfigurationError",
                  "DependencyNotReadyError", "ServiceUnavailableError", "LLMError"} ->
            {exc, "AppError", "Exception"}
      [] exc \in {"LLMTimeoutError", "LLMNetworkError", "LLMInvalidResponseError",
                  "LLMAuthenticationError"} ->
            {exc, "LLMError", "AppError", "Exception"}
      [] OTHER -> {exc, "Exception"}

\* the status_code attribute of an AppError subclass
status_code(exc) ==
    CASE exc \in {"DependencyNotReadyError", "ServiceUnavailableError"} -> 503
      [] exc = "LLMTimeoutError" -> 504
      [] exc \in {"LLMError", "LLMNetworkError", "LLMInvalidResponseError"} -> 502
      [] OTHER -> 500

\* the exception classes the handler's except clause names: the errors of
\* the recommendation logic that the API boundary turns into a FAILED response
ExpectedServiceError == {"LLMError", "RoutineValidationError", "DependencyNotReadyError"}

\* the errors pydantic reports for one SurveyAnswer of the body
SurveyAnswerErrors(a) ==
    (IF a.questionContent = None THEN {"missing"} ELSE {})
    \cup (IF a.selectedOptionSortOrder = None THEN {"missing"}
          ELSE IF a.selectedOptionSortOrder[1] < 1 THEN {"greater_than_equal"} ELSE {})

\* the errors pydantic reports for the surveyData of the body
UserSurveyErrors(sd) ==
    (IF sd.routineCount = None THEN {"missing"}
     ELSE IF sd.routineCount[1] < 0 THEN {"greater_than_equal"} ELSE {})
    \cup (IF sd.survey = None THEN {"missing"}
          ELSE UNION {SurveyAnswerErrors(sd.survey[1][i]) : i \in 1..Len(sd.survey[1])})

\* the error types of validating a request body as UserInputV1 (extra fields
\* are forbidden); empty when the body is valid
UserInputV1Errors(body) ==
    (IF body.surveyData = None THEN {"missing"} ELSE UserSurveyErrors(body.surveyData[1]))
    \cup (IF body.extraField THEN {"extra_forbidden"} ELSE {})

\* the UserSurvey a valid body carries
SurveyOfBody(body) ==
    LET sd == body.surveyData[1]
    IN [routineCount |-> sd.routineCount[1],
        survey |-> [i \in 1..Len(sd.survey[1]) |->
                       [questionContent |-> sd.survey[1][i].questionContent[1],
                        selectedOptionSortOrder |->
                            sd.survey[1][i].selectedOptionSortOrder[1]]]]

\* an HTTP response: status code and JSON content
JSONResponse(code, content) == [status_code |-> code, content |-> content]

\* validation_exception_handler
validation_exception_handler(errors) ==
    IF "missing" \in errors
    THEN JSONResponse(422, [code |-> "MISSING"])
    ELSE JSONResponse(400, [code |-> "INVALID_JSON"])

\* app_error_handler
app_error_handler(exc) == JSONResponse(status_code(exc), [code |-> exc])

\* internal_exception_handler
internal_exception_handler(exc) == JSONResponse(500, [code |-> "INTERNAL_ERROR"])

\* get_recommend_service and get_response_builder: the dependency injection
\* is not implemented, both raise
get_recommend_service == Raise("DependencyNotReadyError")
get_response_builder == Raise("DependencyNotReadyError")

\* the recommend handler; flow is what service.recommend_routines followed by
\* builder.build does once both dependencies exist (a response or a raised
\* error). The result carries the error raised inside the try block, if any
recommend(user_input, flow) ==
    LET service == get_recommend_service
        builder == get_response_builder
        builder_bound == service.ok /\ builder.ok
        raised == IF ~service.ok THEN Some(service.err)
                  ELSE IF ~builder.ok THEN Some(builder.err)
                  ELSE IF ~flow.ok THEN Some(flow.err)
                  ELSE None
    IN [raised |-> raised,
        result |->
           IF raised = None THEN flow
           ELSE IF AppClassesOf(raised[1]) \cap ExpectedServiceError # {}
                THEN IF builder_bound
                     THEN build_failed(TaskId, raised[1])
                     ELSE Raise("UnboundLocalError")
                ELSE Raise(raised[1])]

\* POST /api/v1/routines: body validation, the handler, and the exception
\* handlers registered on the application
post_routines(body, flow) ==
    LET errors == UserInputV1Errors(body)
    IN IF errors # {}
       THEN [raised |-> None, response |-> validation_exception_handler(errors)]
       ELSE LET r == recommend(SurveyOfBody(body), flow)
            IN [raised |-> r.raised,
                response |->
                   IF r.result.ok THEN JSONResponse(200, r.result.val)
                   ELSE IF "AppError" \in AppClassesOf(r.result.err)
                        THEN app_error_handler(r.result.err)
                        ELSE internal_exception_handler(r.result.err)]

(***************************************************************************)
(* Inputs of the model                                                     *)
(***************************************************************************)
\* catalog records (exercises.json): id, type, bodyPart
Exercise(exerciseId, type, bodyPart) ==
    [exerciseId |-> exerciseId, type |-> type, bodyPart |-> bodyPart]

Ex1 == Exercise(1, "REPS", "neck")
Ex2 == Exercise(2, "DURATION", "shoulder")
Ex3 == Exercise(3, "REPS", "neck")
Ex4 == Exercise(4, "DURATION", "wrist")

\* catalogs: empty, too small to fill a routine, and large enough
Catalogs == { <<>>, <<Ex1, Ex2>>, <<Ex1, Ex2, Ex3, Ex4>> }

\* catalogs given to a recommender called directly: those above and two
\* whose file lists an exercise twice
RuleCatalogs == Catalogs \cup { <<Ex2, Ex2>>, <<Ex1, Ex2, Ex1, Ex3>> }

\* arguments of a direct get_filler_steps call: targets below, at and
\* between the multiples of the 60-second step budget and above what the
\* catalogs can give; exclude sets over the catalog IDs and one unknown ID
FillerTargets == {0 - 60, 0, 1, 60, 61, 120, 150, 300}
ExcludableIds == {1, 2, 3, 4, 9}

\* a record whose bodyPart is no member of BodyPart
ExBad == Exercise(5, "REPS", "knee")

\* what exercises.json can hold: nothing (no file) or a list of records
ExerciseFiles == {None} \cup {Some(c) : c \in Catalogs \cup {<<Ex1, ExBad>>}}

\* what the GET of fetch_and_save_exercises can do
FetchOutcomes ==
    {[kind |-> k] : k \in {"RequestError", "HTTPStatusError", "JSONDecodeError", "not_list"}}
    \cup {[kind |-> "list", data |-> c] : c \in Catalogs \cup {<<Ex1, ExBad>>}}

\* request bodies of POST /api/v1/routines: each field present or missing,
\* routineCount and selectedOptionSortOrder inside and outside their range,
\* and a field that is not allowed
BodyAnswers ==
    [questionContent : {None, Some("q")},
     selectedOptionSortOrder : {None, Some(0), Some(1)}]
BodySurveys ==
    [routineCount : {None, Some(0 - 1), Some(1)},
     survey : {None, Some(<<>>)} \cup {Some(<<a>>) : a \in BodyAnswers}]
RequestBodies ==
    [surveyData : {None} \cup {Some(sd) : sd \in BodySurveys}, extraField : BOOLEAN]

\* what recommend_routines followed by build does for the handler
FlowOutcomes ==
    {Ok([status |-> "COMPLETED"]), Raise("LLMInvalidResponseError"),
     Raise("LLMTimeoutError"), Raise("RoutineValidationError")}

\* valid-ID sets given to the builder: none configured, the full catalog's
\* IDs, and a set smaller than the fallback catalog
ValidIdSets == { {}, {1, 2, 3, 4}, {1, 2} }

\* valid-ID sets of the builder that serves requests: those above and one
\* that shares no ID with the two-exercise catalog
RequestValidIdSets == ValidIdSets \cup { {3, 4} }

\* retry settings of the service that serves requests: none, one and the
\* default of ProviderConfig.retry
RequestRetries == {0, 1, 2}

SurveyAnswer(questionContent, selectedOptionSortOrder) ==
    [questionContent |-> questionContent,
     selectedOptionSortOrder |-> selectedOptionSortOrder]

UserSurvey(routineCount, survey) == [routineCount |-> routineCount, survey |-> survey]

\* surveys: no answers and no routine asked for; two routines with a
\* shoulder and a neck answer; one routine with a wrist answer; three
\* routines with a lower-back answer and one matching no keyword
Surveys ==
    { UserSurvey(0, <<>>),
      UserSurvey(2, << SurveyAnswer(<<"eo", "kkae", "x">>, 1),
                       SurveyAnswer(<<"mok", "x">>, 3) >>),
      UserSurvey(1, << SurveyAnswer(<<"son", "mok", "x">>, 2) >>),
      UserSurvey(3, << SurveyAnswer(<<"heo", "ri">>, 2),
                       SurveyAnswer(<<"x", "y">>, 1) >>) }

\* question texts: one containing each keyword (the wrist one contains the
\* character of the neck keyword as well) and one containing none
Questions ==
    { <<"x", "mok">>, <<"eo", "kkae", "x">>, <<"son", "mok", "x">>,
      <<"heo", "ri">>, <<"x", "y">> }

\* selectedOptionSortOrder values (Field ge=1)
Ordinals == {1, 2}

\* every survey of at most MaxAnswers answers asking for 0..MaxRoutineCount
\* routines
RuleSurveys ==
    { UserSurvey(n, a) :
        n \in 0..MaxRoutineCount,
        a \in UNION { [1..k -> { SurveyAnswer(q, o) : q \in Questions, o \in Ordinals }]
                       : k \in 0..MaxAnswers } }

\* TaskStatus
TaskStatus == {"IN_PROGRESS", "COMPLETED", "FAILED"}

\* arguments a caller can give the RecommendationResponseV1 constructor; the
\* progress values include one below and one above the allowed range
ResponseArgs ==
    [ taskId : {"task"},
      status : TaskStatus,
      progress : {-1, 0, 60, 100, 101},
      currentStep : {"step"},
      summary : {None, Some([totalRoutines |-> 1, totalExercises |-> 1])},
      errorMessage : {None, Some("error")},
      completedAt : {None, Some("now")},
      routines : {None, Some(<< [routineOrder |-> 1, reason |-> "llm",
                                 steps |-> << RoutineStep(1, "REPS", 1, 60,
                                                          None, Some(12)) >>] >>)} ]

\* task ids and error messages given to build_failed
TaskIds == {"task", "0f8fad5bd9cb469fa16570867728950e", ""}
ErrorMessages == {"", "LLM timeout", "no routine", "LLM response invalid"}

\* the (exerciseId, limitTime) pairs of LLM steps. Exercises 1 and 2 are in
\* every non-empty catalog, exercise 9 in none. 60 + 90 = MIN_TIME,
\* 60 + 60 + 90 = MAX_TIME, and a step of 220 alone exceeds MAX_TIME
InputSteps == { <<1, 60>>, <<1, 90>>, <<1, 220>>, <<2, 60>>, <<9, 60>> }

\* a step as an LLM writes it
InputStep(exerciseId, limitTime, stepOrder) ==
    IF exerciseId = 1
    THEN RoutineStep(exerciseId, "REPS", stepOrder, limitTime, None, Some(12))
    ELSE RoutineStep(exerciseId, "DURATION", stepOrder, limitTime, Some(20), None)

\* the order numbers an input carries: already 1..n, or descending with gaps
Numberings == {"sequential", "scrambled"}
InputOrder(numbering, n, pos) ==
    IF numbering = "sequential" THEN pos ELSE 2 * (n - pos) + 2

\* the routines cut out of a flat list of steps: starts[k] is the index of
\* the first step of routine k
InputRoutines(flat, starts, numbering) ==
    [k \in 1..Len(starts) |->
        LET first == starts[k]
            last == IF k = Len(starts) THEN Len(flat) ELSE starts[k + 1] - 1
            n == last - first + 1
        IN [routineOrder |-> InputOrder(numbering, Len(starts), k),
            reason |-> "llm",
            steps |-> [i \in 1..n |->
                          InputStep(flat[first + i - 1][1], flat[first + i - 1][2],
                                    InputOrder(numbering, n, i))]]]

\* strictly increasing sequences over 1..n that start with 1, of length <= m
StartSeqs(n, m) ==
    IF n = 0 THEN {<<>>}
    ELSE { st \in UNION {[1..k -> 1..n] : k \in 1..Min(m, n)} :
             /\ st[1] = 1
             /\ \A k \in 1..(Len(st) - 1) : st[k] < st[k + 1] }

\* every flat step list of at most MaxSteps steps with every way of cutting
\* it into at most MaxRoutines routines of at least one step each
InputShapes ==
    UNION { [1..n -> InputSteps] \X StartSeqs(n, MaxRoutines) : n \in 0..MaxSteps }

\* raw texts an LLM returns: not JSON; JSON breaking the schema (a routine
\* without steps, a REPS step without targetReps); schema-valid JSON with no
\* routine; schema-valid JSON with one routine
TextNotJson == [json |-> FALSE, data |-> [routines |-> <<>>]]
TextNoSteps ==
    [json |-> TRUE,
     data |-> [routines |-> << [routineOrder |-> 1, reason |-> "llm", steps |-> <<>>] >>]]
TextBadStep ==
    [json |-> TRUE,
     data |-> [routines |-> << [routineOrder |-> 1, reason |-> "llm",
                                steps |-> << RoutineStep(1, "REPS", 1, 60, None, None) >>] >>]]
TextNoRoutines == [json |-> TRUE, data |-> [routines |-> <<>>]]
TextValid ==
    [json |-> TRUE,
     data |-> [routines |-> << [routineOrder |-> 1, reason |-> "llm",
                                steps |-> << InputStep(1, 60, 1), InputStep(9, 90, 2) >>] >>]]

RawTexts == {TextNotJson, TextNoSteps, TextBadStep, TextNoRoutines, TextValid}

\* what the ollama SDK's Client.generate does: a timeout of httpx, a
\* ResponseError for an HTTP error status, a RequestError for a bad request
\* argument, the ConnectionError it raises when the host cannot be reached,
\* a transport error of httpx while reading; or a response object
OllamaStatuses == {400, 401, 403, 404, 429, 500, 502, 503}
OllamaTexts ==
    { <<>>, <<" ">>, <<"{", "}">>, <<" ", "{", "}", "nl">>, <<"n", "o">> }
OllamaOutcomes ==
    { [raises |-> TRUE, exc |-> e, status |-> 0, has_attr |-> FALSE, is_str |-> FALSE,
       content |-> <<>>] :
        e \in {"httpx.ConnectTimeout", "httpx.ReadTimeout", "ollama.RequestError",
               "ConnectionError", "httpx.ReadError"} }
    \cup { [raises |-> TRUE, exc |-> "ollama.ResponseError", status |-> st,
            has_attr |-> FALSE, is_str |-> FALSE, content |-> <<>>] :
             st \in OllamaStatuses }
    \cup { [raises |-> FALSE, exc |-> "", status |-> 0, has_attr |-> FALSE,
            is_str |-> FALSE, content |-> <<>>],
           [raises |-> FALSE, exc |-> "", status |-> 0, has_attr |-> TRUE,
            is_str |-> FALSE, content |-> <<>>] }
    \cup { [raises |-> FALSE, exc |-> "", status |-> 0, has_attr |-> TRUE,
            is_str |-> TRUE, content |-> t] : t \in OllamaTexts }

\* what the openai SDK's responses.parse does: the built-in TimeoutError,
\* the SDK's error classes, the pydantic ValidationError of an output text
\* that does not validate against text_format; or a response object
OpenAIOutcomes ==
    { [raises |-> TRUE, exc |-> e, has_attr |-> FALSE, parsed |-> None] :
        e \in {"TimeoutError", "openai.APITimeoutError", "openai.APIConnectionError",
               "openai.InternalServerError", "openai.AuthenticationError",
               "openai.RateLimitError", "openai.BadRequestError",
               "openai.PermissionDeniedError", "openai.NotFoundError",
               "openai.APIResponseValidationError", "pydantic.ValidationError"} }
    \cup { [raises |-> FALSE, exc |-> "", has_attr |-> FALSE, parsed |-> None],
           [raises |-> FALSE, exc |-> "", has_attr |-> TRUE, parsed |-> None] }
    \cup { [raises |-> FALSE, exc |-> "", has_attr |-> TRUE, parsed |-> Some(t.data)] :
             t \in {TextNoRoutines, TextValid} }

\* what one generate call does: raise one of LLM_ERRORS or return a text
GenerateOutcomes ==
    { [raises |-> TRUE, kind |-> k, text |-> TextNotJson] : k \in LLM_ERRORS }
      \cup { [raises |-> FALSE, kind |-> "", text |-> t] : t \in RawTexts }

(***************************************************************************)
(* State                                                                   *)
(***************************************************************************)
VARIABLES
    \* RecommendService instance: self._max_retries, self._fallback_enabled
    maxRetries, fallbackEnabled,
    \* the catalog snapshot (self._exercises of the service and of the
    \* rule-based recommender)
    catalog,
    \* one recommend_routines call: its survey, its position, the number of
    \* generate calls made, last_error, the (kind, origin) of every failure,
    \* the text of the attempt that parsed, the number of rule-based
    \* recommend_routines calls and the returned value or raised error
    survey, pc, llmCalls, lastError, errorsSeen, parsedText, ruleCalls, svcResult,
    \* ResponseBuilder instance: self._valid_exercise_ids
    validIds,
    \* build calls: the output and survey given, the result, and how many
    \* build calls were made on this chain (the second one re-runs build on
    \* the routines the first one returned)
    bInput, bSurvey, bResult, bRound,
    \* one direct call of RuleBasedRecommender.recommend_routines: the survey
    \* given and the output returned or the exception raised
    rSurvey, rResult,
    \* one direct call of RuleBasedRecommender.get_filler_steps: its
    \* arguments and the steps returned
    fillerCall,
    \* one construction of a RecommendationResponseV1: the call made (the
    \* constructor with its arguments, or build_failed with its own) and the
    \* value returned or the exception raised
    respCall, respResult,
    \* an LLM client: its provider ("none" while no client is constructed)
    \* and, for every generate call made on it, what the SDK call did and
    \* what generate returned or raised
    provider, genLog,
    \* the exercise repository: the exercises.json on disk (absent, or the
    \* list it holds), the cache fields _loaded, _exercise_ids and _raw_data,
    \* and every call made on the repository with what it returned or raised
    exercisesFile, loaded, exercise_ids, raw_data, repoLog,
    \* the HTTP API: every request body posted to /api/v1/routines with the
    \* response the application gave
    apiLog,
    \* threads that call load() or read the repository's properties at the
    \* same time: for each its call, its position in the call, the data it
    \* read from the file and what it obtained
    threads,
    \* the number of requests the service and builder instances have taken
    served

svcVars == <<maxRetries, fallbackEnabled, survey, pc, llmCalls, lastError, errorsSeen,
             parsedText, ruleCalls, svcResult>>
bldVars == <<validIds, bInput, bSurvey, bResult, bRound>>
rbVars == <<rSurvey, rResult, fillerCall>>
respVars == <<respCall, respResult>>
genVars == <<provider, genLog>>
repoVars == <<exercisesFile, loaded, exercise_ids, raw_data, repoLog>>
apiVars == <<apiLog>>
conVars == <<threads, served>>
vars == <<svcVars, catalog, bldVars, rbVars, respVars, genVars, repoVars, apiVars, conVars>>

\* the service is constructed and no request is running
ServiceIdle ==
    /\ survey = None /\ pc = "idle" /\ llmCalls = 0 /\ lastError = None
    /\ errorsSeen = {} /\ parsedText = None /\ ruleCalls = 0 /\ svcResult = None

\* the builder is constructed and build was not called
BuilderIdle ==
    /\ bInput = None /\ bSurvey = None /\ bResult = None /\ bRound = 0

\* the rule-based recommender is constructed and was not called
RecommenderIdle == rSurvey = None /\ rResult = None /\ fillerCall = None

\* no response was constructed
ResponseIdle == respCall = None /\ respResult = None

\* no LLM client is constructed
NoClient == provider = "none" /\ genLog = <<>>

\* the repository is constructed, nothing is on disk and nothing was called
RepositoryIdle ==
    /\ exercisesFile = None /\ loaded = FALSE /\ exercise_ids = {}
    /\ raw_data = <<>> /\ repoLog = <<>>

\* no request was posted
ApiIdle == apiLog = <<>>
ConcurrencyIdle == threads = <<>> /\ served = 0

(***************************************************************************)
(* RecommendService.recommend_routines                                     *)
(***************************************************************************)
\* entry of recommend_routines: user_prompt built, last_error = None
StartRequest(sv) ==
    /\ pc \in {"idle", "returned", "raised"}
    /\ survey' = Some(sv)
    /\ pc' = "attempting"
    /\ llmCalls' = 0
    /\ lastError' = None
    /\ errorsSeen' = {}
    /\ parsedText' = None
    /\ ruleCalls' = 0
    /\ svcResult' = None
    /\ UNCHANGED <<maxRetries, fallbackEnabled, catalog, bldVars, rbVars, respVars, genVars, repoVars, apiVars, conVars>>

\* one iteration of the retry loop: generate, _parse_response and the except
\* clauses; the iteration that ends the loop also runs the statements after
\* it (fallback or raise)
Attempt(outcome) ==
    /\ pc = "attempting"
    /\ llmCalls' = llmCalls + 1
    /\ LET attempt == llmCalls + 1
           r == generate_and_parse(outcome, attempt)
       IN IF r.ok
          THEN /\ pc' = "returned"
               /\ svcResult' = Some(r)
               /\ parsedText' = Some(outcome.text)
               /\ UNCHANGED <<lastError, errorsSeen, ruleCalls>>
          ELSE LET last == record_error(lastError, r.err)
               IN /\ lastError' = last
                  /\ errorsSeen' = errorsSeen \cup {<<r.err.kind, r.err.origin>>}
                  /\ parsedText' = None
                  /\ IF r.err.kind \in RETRYABLE_ERRORS /\ attempt < attempt_budget(maxRetries)
                     THEN /\ pc' = "attempting"
                          /\ UNCHANGED <<ruleCalls, svcResult>>
                     ELSE LET f == after_loop(last, fallbackEnabled, survey[1], catalog)
                          IN /\ pc' = IF f.ok THEN "returned" ELSE "raised"
                             /\ svcResult' = Some(f)
                             /\ ruleCalls' = IF fallbackEnabled THEN ruleCalls + 1
                                             ELSE ruleCalls
    /\ UNCHANGED <<maxRetries, fallbackEnabled, catalog, survey, bldVars, rbVars, respVars, genVars, repoVars, apiVars, conVars>>

InitService ==
    /\ maxRetries \in 0..RETRY_MAX
    /\ fallbackEnabled \in BOOLEAN
    /\ catalog \in Catalogs
    /\ validIds = {}
    /\ ServiceIdle
    /\ BuilderIdle
    /\ RecommenderIdle
    /\ ResponseIdle
    /\ NoClient
    /\ RepositoryIdle
    /\ ApiIdle
    /\ ConcurrencyIdle

NextService ==
    \/ \E sv \in Surveys : StartRequest(sv)
    \/ \E outcome \in GenerateOutcomes : Attempt(outcome)

SpecService == InitService /\ [][NextService]_vars

\* one loop iteration with any outcome of the generate call; the outcome
\* named first is a member of GenerateOutcomes, so the disjunction is the
\* quantified action, and it decides enabledness without the fallback
AnyAttempt ==
    \/ Attempt([raises |-> FALSE, kind |-> "", text |-> TextNoRoutines])
    \/ \E outcome \in GenerateOutcomes : Attempt(outcome)

\* every generate call returns or raises, so a running request always takes
\* its next loop iteration
SpecServiceLive == SpecService /\ WF_vars(AnyAttempt)

(***************************************************************************)
(* ResponseBuilder.build                                                   *)
(***************************************************************************)
\* build(output, task_id, survey) on an output of the LLM, with or without
\* a survey
Build ==
    /\ bRound = 0
    /\ \E shape \in InputShapes, numbering \in Numberings,
          sv \in {None} \cup {Some(x) : x \in Surveys} :
          LET output == [routines |-> InputRoutines(shape[1], shape[2], numbering)]
          IN /\ bInput' = Some(output)
             /\ bSurvey' = sv
             /\ bResult' = Some(build(output, TaskId, sv, validIds, catalog))
    /\ bRound' = 1
    /\ UNCHANGED <<svcVars, catalog, validIds, rbVars, respVars, genVars, repoVars, apiVars, conVars>>

\* build again on the routines of the response the first call returned
Rebuild ==
    /\ bRound = 1
    /\ bResult[1].ok
    /\ LET output == [routines |-> bResult[1].val.routines[1]]
       IN /\ bInput' = Some(output)
          /\ bResult' = Some(build(output, TaskId, bSurvey, validIds, catalog))
    /\ bRound' = 2
    /\ UNCHANGED <<svcVars, catalog, validIds, bSurvey, rbVars, respVars, genVars, repoVars, apiVars, conVars>>

InitBuilder ==
    /\ maxRetries = 0
    /\ fallbackEnabled = FALSE
    /\ catalog \in Catalogs
    /\ validIds \in ValidIdSets
    /\ ServiceIdle
    /\ BuilderIdle
    /\ RecommenderIdle
    /\ ResponseIdle
    /\ NoClient
    /\ RepositoryIdle
    /\ ApiIdle
    /\ ConcurrencyIdle

NextBuilder ==
    \/ Build
    \/ Rebuild

SpecBuilder == InitBuilder /\ [][NextBuilder]_vars

(***************************************************************************)
(* One request: recommend_routines, then build with the survey             *)
(* (app/api/v1/recommend.py)                                               *)
(***************************************************************************)
\* the endpoint takes a request: task_id is generated and
\* service.recommend_routines(survey=user_input.surveyData) is entered
HandleRequest(sv) ==
    /\ \/ pc = "idle"
       \/ pc = "raised"
       \/ (pc = "returned" /\ bRound = 1)
    /\ survey' = Some(sv)
    /\ pc' = "attempting"
    /\ llmCalls' = 0
    /\ lastError' = None
    /\ errorsSeen' = {}
    /\ parsedText' = None
    /\ ruleCalls' = 0
    /\ svcResult' = None
    /\ bInput' = None
    /\ bSurvey' = None
    /\ bResult' = None
    /\ bRound' = 0
    /\ served < MaxRequests
    /\ served' = served + 1
    /\ UNCHANGED <<maxRetries, fallbackEnabled, catalog, validIds, rbVars, respVars, genVars, repoVars, apiVars, threads>>

\* variant: build writes the normalized routines into the output it was given
HandleBuild_writes_input ==
    /\ pc = "returned"
    /\ bRound = 0
    /\ bInput' = Some(svcResult[1].val)
    /\ bSurvey' = survey
    /\ LET r == build(svcResult[1].val, TaskId, survey, validIds, catalog)
       IN /\ bResult' = Some(r)
          /\ svcResult' = IF r.ok THEN Some(Ok([routines |-> r.val.routines[1]]))
                          ELSE svcResult
    /\ bRound' = 1
    /\ UNCHANGED <<maxRetries, fallbackEnabled, survey, pc, llmCalls, lastError, errorsSeen,
                   parsedText, ruleCalls, catalog, validIds, rbVars, respVars, genVars,
                   repoVars, apiVars, conVars>>

\* builder.build(llm_output, task_id=task_id, survey=user_input.surveyData)
\* on the output recommend_routines returned
HandleBuild ==
    /\ pc = "returned"
    /\ bRound = 0
    /\ bInput' = Some(svcResult[1].val)
    /\ bSurvey' = survey
    /\ bResult' = Some(build(svcResult[1].val, TaskId, survey, validIds, catalog))
    /\ bRound' = 1
    /\ UNCHANGED <<svcVars, catalog, validIds, rbVars, respVars, genVars, repoVars, apiVars, conVars>>

InitRequest ==
    /\ maxRetries \in RequestRetries
    /\ fallbackEnabled \in BOOLEAN
    /\ catalog \in Catalogs
    /\ validIds \in RequestValidIdSets
    /\ ServiceIdle
    /\ BuilderIdle
    /\ RecommenderIdle
    /\ ResponseIdle
    /\ NoClient
    /\ RepositoryIdle
    /\ ApiIdle
    /\ ConcurrencyIdle

NextRequest ==
    \/ \E sv \in Surveys : HandleRequest(sv)
    \/ \E outcome \in GenerateOutcomes : Attempt(outcome)
    \/ HandleBuild

SpecRequest == InitRequest /\ [][NextRequest]_vars

(***************************************************************************)
(* RuleBasedRecommender.recommend_routines                                 *)
(***************************************************************************)
\* recommend_routines(survey) called directly on a recommender constructed
\* over the catalog
RuleRecommend ==
    /\ rResult = None
    /\ fillerCall = None
    /\ \E sv \in RuleSurveys :
          /\ rSurvey' = Some(sv)
          /\ rResult' = Some(rule_recommend_routines(sv, catalog))
    /\ UNCHANGED <<svcVars, catalog, bldVars, fillerCall, respVars, genVars, repoVars, apiVars, conVars>>

\* get_filler_steps(target_time, exclude_ids) called directly on a
\* recommender constructed over the catalog
GetFillerSteps ==
    /\ rResult = None
    /\ fillerCall = None
    /\ \E target_time \in FillerTargets, exclude_ids \in SUBSET ExcludableIds :
          fillerCall' = Some([target_time |-> target_time, exclude_ids |-> exclude_ids,
                              steps |-> get_filler_steps(catalog, target_time, exclude_ids)])
    /\ UNCHANGED <<svcVars, catalog, bldVars, rSurvey, rResult, respVars, genVars, repoVars, apiVars, conVars>>

InitRuleBased ==
    /\ maxRetries = 0
    /\ fallbackEnabled = FALSE
    /\ catalog \in RuleCatalogs
    /\ validIds = {}
    /\ ServiceIdle
    /\ BuilderIdle
    /\ RecommenderIdle
    /\ ResponseIdle
    /\ NoClient
    /\ RepositoryIdle
    /\ ApiIdle
    /\ ConcurrencyIdle

NextRuleBased == RuleRecommend \/ GetFillerSteps

SpecRuleBased == InitRuleBased /\ [][NextRuleBased]_vars

(***************************************************************************)
(* RecommendationResponseV1 and ResponseBuilder.build_failed               *)
(***************************************************************************)
\* RecommendationResponseV1(**args) called by any code
ConstructResponse ==
    /\ respCall = None
    /\ \E a \in ResponseArgs :
          /\ respCall' = Some([op |-> "RecommendationResponseV1", args |-> a])
          /\ respResult' = Some(RecommendationResponseV1(
                                a.taskId, a.status, a.progress, a.currentStep, a.summary,
                                a.errorMessage, a.completedAt, a.routines))
    /\ UNCHANGED <<svcVars, catalog, bldVars, rbVars, genVars, repoVars, apiVars, conVars>>

\* build_failed(task_id, error_message)
BuildFailed ==
    /\ respCall = None
    /\ \E task_id \in TaskIds, error_message \in ErrorMessages :
          /\ respCall' = Some([op |-> "build_failed",
                                args |-> [task_id |-> task_id,
                                          error_message |-> error_message]])
          /\ respResult' = Some(build_failed(task_id, error_message))
    /\ UNCHANGED <<svcVars, catalog, bldVars, rbVars, genVars, repoVars, apiVars, conVars>>

InitResponse ==
    /\ maxRetries = 0
    /\ fallbackEnabled = FALSE
    /\ catalog \in Catalogs
    /\ validIds = {}
    /\ ServiceIdle
    /\ BuilderIdle
    /\ RecommenderIdle
    /\ ResponseIdle
    /\ NoClient
    /\ RepositoryIdle
    /\ ApiIdle
    /\ ConcurrencyIdle

NextResponse ==
    \/ ConstructResponse
    \/ BuildFailed

SpecResponse == InitResponse /\ [][NextResponse]_vars

(***************************************************************************)
(* OllamaClient.generate and OpenAIClient.generate                         *)
(***************************************************************************)
\* one generate call on an OllamaClient
OllamaGenerate ==
    /\ provider = "ollama"
    /\ Len(genLog) < MaxClientCalls
    /\ \E outcome \in OllamaOutcomes :
          genLog' = Append(genLog, [outcome |-> outcome,
                                    result |-> ollama_generate(outcome)])
    /\ UNCHANGED <<svcVars, catalog, bldVars, rbVars, respVars, provider, repoVars, apiVars, conVars>>

\* one generate call on an OpenAIClient
OpenAIGenerate ==
    /\ provider = "openai"
    /\ Len(genLog) < MaxClientCalls
    /\ \E outcome \in OpenAIOutcomes :
          genLog' = Append(genLog, [outcome |-> outcome,
                                    result |-> openai_generate(outcome)])
    /\ UNCHANGED <<svcVars, catalog, bldVars, rbVars, respVars, provider, repoVars, apiVars, conVars>>

InitClients ==
    /\ maxRetries = 0
    /\ fallbackEnabled = FALSE
    /\ catalog = <<>>
    /\ validIds = {}
    /\ ServiceIdle
    /\ BuilderIdle
    /\ RecommenderIdle
    /\ ResponseIdle
    /\ provider \in {"ollama", "openai"}
    /\ genLog = <<>>
    /\ RepositoryIdle
    /\ ApiIdle
    /\ ConcurrencyIdle

NextClients ==
    \/ OllamaGenerate
    \/ OpenAIGenerate

SpecClients == InitClients /\ [][NextClients]_vars

(***************************************************************************)
(* ExerciseRepository and the data endpoint                                *)
(***************************************************************************)
Repo == [loaded |-> loaded, exercise_ids |-> exercise_ids, raw_data |-> raw_data]

\* a call on the repository returned r: the cache fields and the log
RepoCalled(op, r) ==
    /\ loaded' = r.repo.loaded
    /\ exercise_ids' = r.repo.exercise_ids
    /\ raw_data' = r.repo.raw_data
    /\ repoLog' = Append(repoLog, [op |-> op, result |-> r.result])

\* fetch_and_save_exercises(url)
FetchAndSave ==
    /\ Len(repoLog) < MaxRepoCalls
    /\ \E outcome \in FetchOutcomes :
          LET r == fetch_and_save_exercises(outcome, exercisesFile)
          IN /\ exercisesFile' = r.file
             /\ repoLog' = Append(repoLog, [op |-> "fetch_and_save_exercises",
                                            result |-> r.result])
    /\ UNCHANGED <<svcVars, catalog, bldVars, rbVars, respVars, genVars, apiVars, conVars,
                   loaded, exercise_ids, raw_data>>

\* exercise_repository.load()
Load ==
    /\ Len(repoLog) < MaxRepoCalls
    /\ RepoCalled("load", load(Repo, exercisesFile))
    /\ UNCHANGED <<svcVars, catalog, bldVars, rbVars, respVars, genVars, apiVars, conVars, exercisesFile>>

\* a read of exercise_repository.exercise_ids
ReadExerciseIds ==
    /\ Len(repoLog) < MaxRepoCalls
    /\ RepoCalled("exercise_ids", get_exercise_ids(Repo, exercisesFile))
    /\ UNCHANGED <<svcVars, catalog, bldVars, rbVars, respVars, genVars, apiVars, conVars, exercisesFile>>

\* a read of exercise_repository.raw_data
ReadRawData ==
    /\ Len(repoLog) < MaxRepoCalls
    /\ RepoCalled("raw_data", get_raw_data(Repo, exercisesFile))
    /\ UNCHANGED <<svcVars, catalog, bldVars, rbVars, respVars, genVars, apiVars, conVars, exercisesFile>>

\* POST /exercises/update
UpdateExercises ==
    /\ Len(repoLog) < MaxRepoCalls
    /\ RepoCalled("update_exercises", update_exercises(Repo, exercisesFile))
    /\ UNCHANGED <<svcVars, catalog, bldVars, rbVars, respVars, genVars, apiVars, conVars, exercisesFile>>

InitRepository ==
    /\ maxRetries = 0
    /\ fallbackEnabled = FALSE
    /\ catalog = <<>>
    /\ validIds = {}
    /\ ServiceIdle
    /\ BuilderIdle
    /\ RecommenderIdle
    /\ ResponseIdle
    /\ NoClient
    /\ ApiIdle
    /\ exercisesFile \in ExerciseFiles
    /\ loaded = FALSE /\ exercise_ids = {} /\ raw_data = <<>> /\ repoLog = <<>>
    /\ ConcurrencyIdle

NextRepository ==
    \/ FetchAndSave
    \/ Load
    \/ ReadExerciseIds
    \/ ReadRawData
    \/ UpdateExercises

SpecRepository == InitRepository /\ [][NextRepository]_vars

(***************************************************************************)
(* POST /api/v1/routines                                                   *)
(***************************************************************************)
\* one request posted to the application
PostRoutines ==
    /\ Len(apiLog) < MaxRequests
    /\ \E body \in RequestBodies, flow \in FlowOutcomes :
          LET r == post_routines(body, flow)
          IN apiLog' = Append(apiLog, [body |-> body, raised |-> r.raised,
                                      response |-> r.response])
    /\ UNCHANGED <<svcVars, catalog, bldVars, rbVars, respVars, genVars, repoVars, conVars>>

InitApi ==
    /\ maxRetries = 0
    /\ fallbackEnabled = FALSE
    /\ catalog = <<>>
    /\ validIds = {}
    /\ ServiceIdle
    /\ BuilderIdle
    /\ RecommenderIdle
    /\ ResponseIdle
    /\ NoClient
    /\ RepositoryIdle
    /\ ApiIdle
    /\ ConcurrencyIdle

NextApi == PostRoutines

SpecApi == InitApi /\ [][NextApi]_vars

(***************************************************************************)
(* ExerciseRepository used by several threads (app/data/loader.py)         *)
(***************************************************************************)
\* a thread about to call load() ("load"), or about to read the exercise_ids
\* property and then the raw_data property ("read", as
\* ResponseBuilder.__init__ does). pc is the statement the thread executes
\* next, ret the statement it continues with when load() returns, data the
\* list load() read from the file, ids and raw what the properties returned,
\* err the exception that ended the call
NewThread(op) ==
    [op |-> op,
     pc |-> IF op = "load" THEN "load_check" ELSE "ensure",
     ret |-> IF op = "load" THEN "done" ELSE "get_ids",
     data |-> None, ids |-> None, raw |-> None, err |-> None]

ThreadOps == {"load", "read"}

\* thread t moves to pc2 with the fields of changes rewritten
Goto(t, pc2, changes) ==
    threads' = [threads EXCEPT ![t] =
                  [f \in DOMAIN threads[t] |->
                      IF f = "pc" THEN pc2
                      ELSE IF f \in DOMAIN changes THEN changes[f] ELSE threads[t][f]]]

NoChange == [x \in {} |-> x]

\* _ensure_loaded: `if not self._loaded: self.load()`
EnsureLoaded(t) ==
    /\ threads[t].pc = "ensure"
    /\ Goto(t, IF ~loaded THEN "load_check" ELSE threads[t].ret, NoChange)
    /\ UNCHANGED <<svcVars, catalog, bldVars, rbVars, respVars, genVars, repoVars, apiVars, served>>

\* load: `if self._loaded: return`
LoadCheck(t) ==
    /\ threads[t].pc = "load_check"
    /\ Goto(t, IF loaded THEN threads[t].ret ELSE "load_open", NoChange)
    /\ UNCHANGED <<svcVars, catalog, bldVars, rbVars, respVars, genVars, repoVars, apiVars, served>>

\* load: the exists check, json.load and the validation of every record,
\* which fill the locals data and exercises or raise
LoadOpen(t) ==
    /\ threads[t].pc = "load_open"
    /\ IF exercisesFile = None
       THEN Goto(t, "done", [err |-> Some("FileNotFoundError")])
       ELSE LET data == exercisesFile[1]
            IN IF \E i \in 1..Len(data) : ~Exercise_model_validate(data[i]).ok
               THEN Goto(t, "done", [err |-> Some("ValidationError")])
               ELSE Goto(t, "set_ids", [data |-> Some(data)])
    /\ UNCHANGED <<svcVars, catalog, bldVars, rbVars, respVars, genVars, repoVars, apiVars, served>>

\* load: `self._exercises = exercises` (a field no method reads) and
\* `self._exercise_ids = frozenset(...)`
SetExerciseIds(t) ==
    /\ threads[t].pc = "set_ids"
    /\ exercise_ids' = {threads[t].data[1][i].exerciseId : i \in 1..Len(threads[t].data[1])}
    /\ Goto(t, "set_raw", NoChange)
    /\ UNCHANGED <<svcVars, catalog, bldVars, rbVars, respVars, genVars, apiVars, served,
                   exercisesFile, loaded, raw_data, repoLog>>

\* load: `self._raw_data = data`
SetRawData(t) ==
    /\ threads[t].pc = "set_raw"
    /\ raw_data' = threads[t].data[1]
    /\ Goto(t, "set_loaded", NoChange)
    /\ UNCHANGED <<svcVars, catalog, bldVars, rbVars, respVars, genVars, apiVars, served,
                   exercisesFile, loaded, exercise_ids, repoLog>>

\* load: `self._loaded = True`, after which load returns
SetLoaded(t) ==
    /\ threads[t].pc = "set_loaded"
    /\ loaded' = TRUE
    /\ Goto(t, threads[t].ret, NoChange)
    /\ UNCHANGED <<svcVars, catalog, bldVars, rbVars, respVars, genVars, apiVars, served,
                   exercisesFile, exercise_ids, raw_data, repoLog>>

\* the exercise_ids property: `return self._exercise_ids`; the reader goes
\* on to the raw_data property
GetExerciseIds(t) ==
    /\ threads[t].pc = "get_ids"
    /\ Goto(t, "ensure", [ids |-> Some(exercise_ids), ret |-> "get_raw"])
    /\ UNCHANGED <<svcVars, catalog, bldVars, rbVars, respVars, genVars, repoVars, apiVars, served>>

\* the raw_data property: `return self._raw_data`
GetRawData(t) ==
    /\ threads[t].pc = "get_raw"
    /\ Goto(t, "done", [raw |-> Some(raw_data)])
    /\ UNCHANGED <<svcVars, catalog, bldVars, rbVars, respVars, genVars, repoVars, apiVars, served>>

\* fetch_and_save_exercises(url) run meanwhile: it writes a longer list to
\* exercises.json
SaveExercises ==
    /\ \E outcome \in FetchOutcomes :
          /\ outcome.kind = "list"
          /\ Len(outcome.data) > (IF exercisesFile = None THEN 0 ELSE Len(exercisesFile[1]))
          /\ exercisesFile' = fetch_and_save_exercises(outcome, exercisesFile).file
    /\ UNCHANGED <<svcVars, catalog, bldVars, rbVars, respVars, genVars, apiVars, conVars,
                   loaded, exercise_ids, raw_data, repoLog>>

InitConcurrent ==
    /\ maxRetries = 0
    /\ fallbackEnabled = FALSE
    /\ catalog = <<>>
    /\ validIds = {}
    /\ ServiceIdle
    /\ BuilderIdle
    /\ RecommenderIdle
    /\ ResponseIdle
    /\ NoClient
    /\ ApiIdle
    /\ exercisesFile \in ExerciseFiles
    /\ loaded = FALSE /\ exercise_ids = {} /\ raw_data = <<>> /\ repoLog = <<>>
    /\ threads \in [1..MaxThreads -> {NewThread(op) : op \in ThreadOps}]
    /\ served = 0

NextConcurrent ==
    \/ \E t \in 1..Len(threads) : EnsureLoaded(t)
    \/ \E t \in 1..Len(threads) : LoadCheck(t)
    \/ \E t \in 1..Len(threads) : LoadOpen(t)
    \/ \E t \in 1..Len(threads) : SetExerciseIds(t)
    \/ \E t \in 1..Len(threads) : SetRawData(t)
    \/ \E t \in 1..Len(threads) : SetLoaded(t)
    \/ \E t \in 1..Len(threads) : GetExerciseIds(t)
    \/ \E t \in 1..Len(threads) : GetRawData(t)
    \/ SaveExercises

SpecConcurrent == InitConcurrent /\ [][NextConcurrent]_vars

(***************************************************************************)
(* Properties of recommend_routines (checked under SpecService)            *)
(***************************************************************************)
Done == pc \in {"returned", "raised"}
NoSuccess == parsedText = None
AuthSeen == \E e \in errorsSeen : e[1] = "LLMAuthenticationError"
AllRetryable ==
    \A e \in errorsSeen :
        e[1] \in {"LLMTimeoutError", "LLMNetworkError", "LLMInvalidResponseError"}

\* C1: when every attempt of a request fails with a retryable condition
\* (Timeout, NetworkError, InvalidResponse from generate, JSON-parse or
\* schema failure of the text), the request ends (fallback or raise) after
\* exactly maxRetries + 1 generate calls, and not before
C1_RetryAccounting ==
    /\ (Done /\ NoSuccess /\ AllRetryable) => llmCalls = maxRetries + 1
    /\ (pc = "attempting" /\ AllRetryable) => llmCalls <= maxRetries

\* C1 witness: a request with maxRetries = 5 ended after all five kinds of
\* retryable failure occurred
C1_Witness ==
    /\ Done /\ NoSuccess /\ AllRetryable
    /\ maxRetries = 5 /\ llmCalls = 6
    /\ Cardinality(errorsSeen) = 5

\* C2: once a generate call has raised AuthenticationError the request is
\* over: no attempt is pending and the failing call is the last call made,
\* so an AuthenticationError on the first attempt gives exactly 1 call
C2_NoCallAfterAuth ==
    AuthSeen =>
        /\ pc # "attempting"
        /\ lastError # None
        /\ lastError[1].kind = "LLMAuthenticationError"
        /\ lastError[1].attempt = llmCalls

\* C2 witness: AuthenticationError on the first attempt with five retries left
C2_Witness == AuthSeen /\ maxRetries = 5 /\ llmCalls = 1 /\ Done

\* C3: with fallback enabled and a non-empty catalog nothing is raised; the
\* value returned is the parsed data of the attempt that succeeded or, when
\* none did, the rule-based recommender's output for the survey, which has
\* at least one routine
C3_FallbackNeverRaises ==
    (fallbackEnabled /\ catalog # <<>>) =>
        /\ pc # "raised"
        /\ pc = "returned" =>
              /\ svcResult[1].ok
              /\ IF parsedText # None
                 THEN /\ svcResult[1].val = parsedText[1].data
                      /\ ruleCalls = 0
                 ELSE /\ rule_recommend_routines(survey[1], catalog).ok
                      /\ svcResult[1].val = rule_recommend_routines(survey[1], catalog).val
                      /\ svcResult[1].val.routines # <<>>
                      /\ ruleCalls = 1

\* C3 witness: Timeout on every call, maxRetries = 2, fallback enabled:
\* a non-empty output is returned after 3 calls
C3_Witness ==
    /\ fallbackEnabled /\ catalog # <<>> /\ pc = "returned" /\ NoSuccess
    /\ maxRetries = 2 /\ llmCalls = 3
    /\ errorsSeen = {<<"LLMTimeoutError", "generate">>}
    /\ svcResult[1].val.routines # <<>>

\* C4 as stated: an error is raised only when fallback is disabled and all
\* maxRetries + 1 attempts have been made and have failed
C4_RaisesOnlyWhenExhausted ==
    pc = "raised" => (~fallbackEnabled /\ NoSuccess /\ llmCalls = maxRetries + 1)

\* C4 amended: an error is raised only when no attempt succeeded, the
\* attempts ended (all maxRetries + 1 made, or one failed with
\* AuthenticationError) and either fallback is disabled or the catalog is
\* empty; in every other situation the request returns an output
C4_RaisesOnlyWithoutUsableFallback ==
    /\ pc = "raised" =>
          /\ NoSuccess
          /\ (llmCalls = maxRetries + 1 \/ lastError[1].kind = "LLMAuthenticationError")
          /\ (~fallbackEnabled \/ catalog = <<>>)
    /\ (Done /\ pc # "raised") => svcResult[1].ok

\* C4 witness: fallback disabled, AuthenticationError before the retry
\* budget is used up, error raised
C4_Witness ==
    /\ pc = "raised" /\ ~fallbackEnabled /\ AuthSeen
    /\ llmCalls < maxRetries + 1

\* C5: with fallback disabled and no successful attempt the raised error is
\* an LLMInvalidResponseError whose cause is the error of the last attempt
\* made, whatever its kind
C5_RaisesInvalidResponseWithLastCause ==
    (pc = "raised" /\ ~fallbackEnabled) =>
        /\ ~svcResult[1].ok
        /\ svcResult[1].err.kind = "LLMInvalidResponseError"
        /\ svcResult[1].err.cause # None
        /\ svcResult[1].err.cause = lastError
        /\ svcResult[1].err.cause[1].attempt = llmCalls

\* C5 witness: the last of several attempts failed with AuthenticationError
\* after an earlier failure of another kind
C5_Witness ==
    /\ pc = "raised" /\ ~fallbackEnabled /\ llmCalls >= 2
    /\ svcResult[1].err.cause[1].kind = "LLMAuthenticationError"
    /\ Cardinality(errorsSeen) >= 2

(***************************************************************************)
(* Properties of build (checked under SpecBuilder)                         *)
(***************************************************************************)
BuildReturned == bRound >= 1 /\ bResult[1].ok
ReturnedRoutines == bResult[1].val.routines[1]
InputRoutinesOfBuild == bInput[1].routines

\* C6: no routine of a returned response has a total step time above 210
C6_TotalNeverAboveMax ==
    BuildReturned =>
        \A r \in 1..Len(ReturnedRoutines) : SumLimit(ReturnedRoutines[r].steps) <= 210

\* C6 witness: an input routine of more than 210 seconds was normalized in
\* the first pass and the response was returned
C6_Witness ==
    /\ bRound = 1 /\ BuildReturned /\ bResult[1].passes = 1 /\ validIds = {}
    /\ SumLimit(InputRoutinesOfBuild[1].steps) > 210

\* C7 as stated: every returned routine totals within [150, 210] seconds
\* unless the fallback recommender has no filler step for it
C7_InRangeUnlessNoFiller ==
    BuildReturned =>
        \A r \in 1..Len(ReturnedRoutines) :
            LET steps == ReturnedRoutines[r].steps
                total == SumLimit(steps)
            IN \/ (150 <= total /\ total <= 210)
               \/ get_filler_steps(catalog, 150 - total, IdsOf(steps)) = <<>>

\* C8: in every returned routine the stepOrder values in list order are
\* 1, 2, ..., N with N >= 1
C8_StepOrderContiguous ==
    BuildReturned =>
        \A r \in 1..Len(ReturnedRoutines) :
            LET steps == ReturnedRoutines[r].steps
            IN /\ Len(steps) >= 1
               /\ \A i \in 1..Len(steps) : steps[i].stepOrder = i

\* C8 witness: an input routine with a first stepOrder other than 1 was
\* filled with filler steps in the first pass
C8_Witness ==
    /\ bRound = 1 /\ BuildReturned /\ bResult[1].passes = 1
    /\ InputRoutinesOfBuild[1].steps[1].stepOrder # 1
    /\ Len(ReturnedRoutines[1].steps) > Len(InputRoutinesOfBuild[1].steps)

\* C9: in every returned response the routineOrder values in list order are
\* 1, 2, ..., M with M >= 1
C9_RoutineOrderContiguous ==
    BuildReturned =>
        /\ Len(ReturnedRoutines) >= 1
        /\ \A r \in 1..Len(ReturnedRoutines) : ReturnedRoutines[r].routineOrder = r

\* C9 witness: two input routines numbered other than 1, 2 were normalized
\* in the first pass
C9_Witness ==
    /\ bRound = 1 /\ BuildReturned /\ bResult[1].passes = 1
    /\ Len(InputRoutinesOfBuild) = 2
    /\ InputRoutinesOfBuild[1].routineOrder # 1
    /\ Len(ReturnedRoutines) = 2

\* C10 as stated: build on the routines of a response it returned returns
\* the identical routine list
C10_Idempotent ==
    bRound = 2 =>
        /\ bResult[1].ok
        /\ ReturnedRoutines = InputRoutinesOfBuild

\* a step obeys the exercise-type rule, written out field by field
TypeRuleHolds(step) ==
    \/ (step.type = "REPS" /\ step.targetReps # None /\ step.durationTime = None)
    \/ (step.type = "DURATION" /\ step.durationTime # None /\ step.targetReps = None)

AllStepsObeyTypeRule(routines) ==
    \A r \in 1..Len(routines) :
        \A i \in 1..Len(routines[r].steps) : TypeRuleHolds(routines[r].steps[i])

\* a one-routine, one-step LLM text with the given type and optional fields
TextWithStep(type, durationTime, targetReps) ==
    [json |-> TRUE,
     data |-> [routines |-> << [routineOrder |-> 1, reason |-> "llm",
                                steps |-> << RoutineStep(1, type, 1, 60,
                                                         durationTime, targetReps) >>] >>]]

\* C11: every step of every routine returned by build (LLM-sourced, filler
\* or rule-based fallback) and of every routine the rule-based recommender
\* returns has targetReps set and durationTime absent when its type is REPS,
\* and durationTime set and targetReps absent when its type is DURATION; a
\* step breaking the rule is rejected when it is constructed from LLM text.
\* The catalog is fixed at construction, so the recommender's own output and
\* the parser are examined once per catalog, before the first build
C11_ExerciseTypeFields ==
    /\ BuildReturned => AllStepsObeyTypeRule(ReturnedRoutines)
    /\ bRound = 0 =>
          /\ \A sv \in Surveys :
                LET out == rule_recommend_routines(sv, catalog)
                IN out.ok => AllStepsObeyTypeRule(out.val.routines)
          /\ \A type \in {"REPS", "DURATION"}, durationTime \in {None, Some(20)},
                targetReps \in {None, Some(12)} :
                LET step == RoutineStep(1, type, 1, 60, durationTime, targetReps)
                IN parse_response(TextWithStep(type, durationTime, targetReps), 1).ok
                      <=> TypeRuleHolds(step)

\* C11 witness: a returned routine holds an LLM-written REPS step followed
\* by a DURATION filler step appended by the first normalization pass
C11_Witness ==
    /\ bRound = 1 /\ BuildReturned /\ bResult[1].passes = 1
    /\ Len(ReturnedRoutines[1].steps) > Len(InputRoutinesOfBuild[1].steps)
    /\ ReturnedRoutines[1].steps[1].type = "REPS"
    /\ ReturnedRoutines[1].steps[1].targetReps = Some(12)
    /\ \E i \in 1..Len(ReturnedRoutines[1].steps) :
          /\ ReturnedRoutines[1].steps[i].type = "DURATION"
          /\ ReturnedRoutines[1].steps[i].durationTime = Some(STEP_DURATION_TIME)

\* the output given to build has no routine or, with a non-empty valid-ID
\* set, a routine whose steps all reference IDs outside the set
InvalidOutput(output) ==
    \/ output.routines = <<>>
    \/ /\ validIds # {}
       /\ \E r \in 1..Len(output.routines) :
             \A i \in 1..Len(output.routines[r].steps) :
                 output.routines[r].steps[i].exerciseId \notin validIds

\* C13 as stated: build on an output with zero routines, or with a routine
\* whose steps all reference IDs outside a non-empty valid-ID set, returns
\* with a survey a COMPLETED response built from the rule-based output for
\* that survey, and without a survey raises RoutineValidationError
C13_InvalidOutputFallsBackOrRaises ==
    (bRound = 1 /\ InvalidOutput(bInput[1])) =>
        IF bSurvey # None
        THEN /\ bResult[1].ok
             /\ bResult[1].val.status = "COMPLETED"
             /\ bResult[1].fallback_calls = 1
             /\ LET out == rule_recommend_routines(bSurvey[1], catalog)
                IN /\ out.ok
                   /\ Len(ReturnedRoutines) = Len(out.val.routines)
        ELSE /\ ~bResult[1].ok
             /\ bResult[1].err = "RoutineValidationError"

\* the steps of an input routine that ID filtering keeps
KeptByFilter(steps) ==
    IF validIds # {} THEN SelectSeq(steps, LAMBDA step : step.exerciseId \in validIds)
    ELSE steps

\* ID filtering or total-time trimming leaves some input routine without steps
EmptiedByNormalization(output) ==
    \E r \in 1..Len(output.routines) :
        LET kept == KeptByFilter(output.routines[r].steps)
        IN \/ kept = <<>>
           \/ (SumLimit(kept) > 210 /\ kept[1].limitTime > 210)

\* C14 as stated: when ID filtering or trimming leaves a routine with no
\* steps the failure is a RoutineValidationError handled at the build
\* boundary: with a survey one fallback and a second normalization pass,
\* without a survey RoutineValidationError raised to the caller
C14_EmptiedRoutineIsValidationError ==
    (bRound = 1 /\ EmptiedByNormalization(bInput[1])) =>
        IF bSurvey # None
        THEN bResult[1].fallback_calls = 1
        ELSE ~bResult[1].ok /\ bResult[1].err = "RoutineValidationError"

\* {e.exerciseId for e in exercises}: the ID set of the catalog
CatalogIds == {catalog[i].exerciseId : i \in 1..Len(catalog)}

\* C15: with a non-empty catalog whose ID set is the builder's valid-ID set,
\* every build call that falls back to the rule-based recommender passes the
\* second normalization and returns a COMPLETED response
C15_FallbackNormalizationSucceeds ==
    (bRound = 1 /\ catalog # <<>> /\ validIds = CatalogIds
       /\ bResult[1].fallback_calls = 1) =>
        /\ bResult[1].ok
        /\ bResult[1].passes = 2
        /\ bResult[1].val.status = "COMPLETED"
        /\ bResult[1].val.routines # None

\* C15 witness: an output whose only routine references an unknown ID fell
\* back for a survey asking for three routines and returned three routines
C15_Witness ==
    /\ bRound = 1 /\ catalog # <<>> /\ validIds = CatalogIds
    /\ bResult[1].fallback_calls = 1
    /\ bInput[1].routines # <<>>
    /\ bSurvey[1].routineCount = 3
    /\ bResult[1].ok
    /\ Len(ReturnedRoutines) = 3

\* the number of (routine, step) positions of a routine list
StepPositions(routines) ==
    UNION { { <<r, i>> : i \in 1..Len(routines[r].steps) } : r \in 1..Len(routines) }

\* the routine list the normalization of this build call produced: of the
\* given output after one pass, of the rule-based output after two
NormalizedOfBuild ==
    IF bResult[1].passes = 1
    THEN validate_and_fix(bInput[1].routines, validIds, catalog).val
    ELSE validate_and_fix(rule_recommend_routines(bSurvey[1], catalog).val.routines,
                          validIds, catalog).val

\* C16: every response build returns has status COMPLETED, progress 100, no
\* error message, the normalized routine list as routines, and a summary
\* whose totalRoutines is the length of that list and whose totalExercises
\* is the number of steps in it after trimming and filling
C16_CompletedResponseFields ==
    BuildReturned =>
        LET response == bResult[1].val
            normalized == NormalizedOfBuild
        IN /\ response.status = "COMPLETED"
           /\ response.progress = 100
           /\ response.errorMessage = None
           /\ response.routines = Some(normalized)
           /\ response.summary # None
           /\ response.summary[1].totalRoutines = Len(normalized)
           /\ response.summary[1].totalExercises =
                 Cardinality(StepPositions(normalized))

\* C16 witness: an input routine of three steps was trimmed to two, and the
\* summary counts one routine and the two steps kept
C16_Witness ==
    /\ bRound = 1 /\ BuildReturned /\ bResult[1].passes = 1
    /\ Cardinality(StepPositions(InputRoutinesOfBuild)) = 3
    /\ bResult[1].val.summary[1].totalRoutines = 1
    /\ bResult[1].val.summary[1].totalExercises = 2

(***************************************************************************)
(* Properties of the rule-based recommender (checked under SpecRuleBased)  *)
(***************************************************************************)
\* C12: on a non-empty catalog a direct recommend_routines call raises
\* nothing and returns exactly max(1, routineCount) routines, each with at
\* least one step, whatever the answers (none matching a keyword included)
C12_RuleBasedNeverRaises ==
    (rResult # None /\ catalog # <<>>) =>
        /\ rResult[1].ok
        /\ Len(rResult[1].val.routines) =
              (IF rSurvey[1].routineCount >= 1 THEN rSurvey[1].routineCount ELSE 1)
        /\ \A r \in 1..Len(rResult[1].val.routines) :
              Len(rResult[1].val.routines[r].steps) >= 1

\* C12 witness: routineCount 0 and no answer matching a keyword on a
\* non-empty catalog gave one routine
C12_Witness ==
    /\ rResult # None /\ catalog # <<>>
    /\ rSurvey[1].routineCount = 0
    /\ rSurvey[1].survey # <<>>
    /\ extract_pain_scores(rSurvey[1]) = <<>>
    /\ rResult[1].ok
    /\ Len(rResult[1].val.routines) = 1

(***************************************************************************)
(* Properties of the response schema (checked under SpecResponse)          *)
(***************************************************************************)
CalledBuildFailed == respCall # None /\ respCall[1].op = "build_failed"
CalledConstructor == respCall # None /\ respCall[1].op = "RecommendationResponseV1"

\* C17: build_failed(taskId, message) raises nothing and returns a response
\* with that task id, status FAILED, progress 0, errorMessage equal to the
\* message, a completion timestamp, and neither summary nor routines
C17_BuildFailedResponse ==
    CalledBuildFailed =>
        /\ respResult[1].ok
        /\ respResult[1].val.taskId = respCall[1].args.task_id
        /\ respResult[1].val.status = "FAILED"
        /\ respResult[1].val.progress = 0
        /\ respResult[1].val.errorMessage = Some(respCall[1].args.error_message)
        /\ respResult[1].val.completedAt # None
        /\ respResult[1].val.summary = None
        /\ respResult[1].val.routines = None

\* C17 witness: build_failed was called with an empty task id and a
\* non-empty message
C17_Witness ==
    /\ CalledBuildFailed
    /\ respCall[1].args.task_id = ""
    /\ respCall[1].args.error_message = "LLM timeout"
    /\ respResult[1].ok

\* C18 as stated: every response value that is constructed has summary
\* present iff status is COMPLETED, routines present iff status is
\* COMPLETED and errorMessage present iff status is FAILED
C18_StatusFieldsIff ==
    (respCall # None /\ respResult[1].ok) =>
        LET response == respResult[1].val
        IN /\ (response.summary # None) <=> (response.status = "COMPLETED")
           /\ (response.routines # None) <=> (response.status = "COMPLETED")
           /\ (response.errorMessage # None) <=> (response.status = "FAILED")

\* C18 amended: a constructed response with status COMPLETED has summary and
\* routines present, and with progress in range the constructor rejects
\* exactly the COMPLETED values lacking one of them; no other relation
\* between status and summary, routines or errorMessage is enforced
C18_CompletedRequiresSummaryAndRoutines ==
    CalledConstructor =>
        LET a == respCall[1].args
        IN /\ (respResult[1].ok /\ a.status = "COMPLETED") =>
                 (respResult[1].val.summary # None /\ respResult[1].val.routines # None)
           /\ (a.progress >= 0 /\ a.progress <= 100) =>
                 (~respResult[1].ok <=>
                     (a.status = "COMPLETED" /\ (a.summary = None \/ a.routines = None)))

\* C18 witness: a FAILED response carrying a summary and routines and no
\* error message was constructed
C18_Witness ==
    /\ CalledConstructor
    /\ respResult[1].ok
    /\ respResult[1].val.status = "FAILED"
    /\ respResult[1].val.summary # None
    /\ respResult[1].val.routines # None
    /\ respResult[1].val.errorMessage = None

(***************************************************************************)
(* Properties of the LLM clients (checked under SpecClients)               *)
(***************************************************************************)
\* C19 as stated: every failure of a generate call of either client leaves
\* it as one of the four kinds Timeout, NetworkError, InvalidResponse and
\* AuthenticationError, whatever the SDK call raised or returned
C19_OnlyFourErrorKinds ==
    \A i \in 1..Len(genLog) :
        ~genLog[i].result.ok =>
            /\ genLog[i].result.err.mapped
            /\ genLog[i].result.err.kind \in
                  {"LLMTimeoutError", "LLMNetworkError", "LLMInvalidResponseError",
                   "LLMAuthenticationError"}

(***************************************************************************)
(* Properties of one request (checked under SpecRequest)                   *)
(***************************************************************************)
\* C20 as stated: one request (recommend_routines, then build with the
\* survey) invokes the rule-based recommend_routines at most once in total,
\* counting the orchestrator's exhaustion path and the builder's
\* validation-failure path, and makes one sequence of at most
\* maxRetries + 1 LLM calls
C20_AtMostOneFallbackPerRequest ==
    bRound = 1 =>
        /\ ruleCalls + bResult[1].fallback_calls <= 1
        /\ llmCalls <= maxRetries + 1

(***************************************************************************)
(* Further properties of recommend_routines (checked under SpecService and *)
(* SpecServiceLive)                                                        *)
(***************************************************************************)
\* C26: when an attempt's text parses and matches the schema, it is attempt
\* k = llmCalls with 1 <= k <= maxRetries + 1, every earlier attempt failed
\* with a retryable condition (the last of them attempt k - 1), the parsed
\* output is what recommend_routines returns, no further generate call can
\* be made and the rule-based recommender was not invoked
C26_FirstSuccessReturnsAtOnce ==
    parsedText # None =>
        /\ pc = "returned"
        /\ svcResult = Some(Ok(parsedText[1].data))
        /\ 1 <= llmCalls /\ llmCalls <= maxRetries + 1
        /\ AllRetryable
        /\ llmCalls = 1 => (lastError = None /\ errorsSeen = {})
        /\ llmCalls > 1 => (lastError # None /\ lastError[1].attempt = llmCalls - 1)
        /\ ruleCalls = 0
        /\ ~ENABLED (\E outcome \in GenerateOutcomes : Attempt(outcome))

\* C26 witness: with maxRetries = 2 the third attempt is the first to parse,
\* after a timeout and a schema failure
C26_Witness ==
    /\ parsedText = Some(TextValid) /\ maxRetries = 2 /\ llmCalls = 3
    /\ errorsSeen = {<<"LLMTimeoutError", "generate">>,
                     <<"LLMInvalidResponseError", "schema">>}
    /\ pc = "returned"

\* the three ways a request ends
ReturnedLLMOutput == pc = "returned" /\ parsedText # None /\ svcResult[1].ok
ReturnedFallbackOutput ==
    pc = "returned" /\ parsedText = None /\ ruleCalls = 1 /\ svcResult[1].ok
RaisedError == pc = "raised" /\ parsedText = None /\ ~svcResult[1].ok

\* C27: every request terminates when each generate call returns or fails:
\* a running request makes one generate call per step, never more than
\* maxRetries + 1 in all, has no result before it ends, and reaches an end
\* that is exactly one of: an LLM output returned, the fallback output
\* returned, an error raised
C27_RequestTerminates ==
    /\ [][pc = "attempting" => (llmCalls' = llmCalls + 1 /\ survey' = survey)]_vars
    /\ [](/\ llmCalls <= maxRetries + 1
          /\ pc = "attempting" => svcResult = None
          /\ Done => /\ svcResult # None
                      /\ (ReturnedLLMOutput \/ ReturnedFallbackOutput \/ RaisedError)
                      /\ ~(ReturnedLLMOutput /\ ReturnedFallbackOutput)
                      /\ ~(ReturnedLLMOutput /\ RaisedError)
                      /\ ~(ReturnedFallbackOutput /\ RaisedError))
    /\ (pc = "attempting" ~> Done)

\* C27 witness: a request that used all six attempts of maxRetries = 5 and
\* ended with the fallback output
C27_Witness ==
    /\ ReturnedFallbackOutput /\ maxRetries = 5 /\ llmCalls = 6

(***************************************************************************)
(* Further properties of build (checked under SpecBuilder; C28 under       *)
(* SpecRequest, whose builder may share no ID with the fallback catalog)   *)
(***************************************************************************)
\* C25: with a non-empty valid-ID set configured, every step of every
\* routine of a returned response references an exercise ID of that set,
\* filler steps and the routines of the builder's fallback included
C25_ReturnedStepsHaveValidIds ==
    (BuildReturned /\ validIds # {}) =>
        \A r \in 1..Len(ReturnedRoutines) :
            IdsOf(ReturnedRoutines[r].steps) \subseteq validIds

\* C28: one build call invokes the rule-based recommender at most once and
\* runs at most two normalization passes; the fallback is taken only after
\* the first pass raised RoutineValidationError with a survey given, and
\* when the normalization of the fallback output fails as well, that error
\* is what build raises
C28_AtMostOneFallbackCycle ==
    bRound >= 1 =>
        LET result == bResult[1]
            first == validate_and_fix(bInput[1].routines, validIds, catalog)
        IN /\ result.fallback_calls \in {0, 1}
           /\ result.passes \in {1, 2}
           /\ result.passes = 2 => result.fallback_calls = 1
           /\ result.fallback_calls = 1 =>
                 (bSurvey # None /\ ~first.ok /\ first.err = "RoutineValidationError")
           /\ (result.passes = 2 /\ ~result.ok) =>
                 LET second == validate_and_fix(
                                   rule_recommend_routines(bSurvey[1], catalog).val.routines,
                                   validIds, catalog)
                 IN ~second.ok /\ result.err = second.err

\* C28 witness: the first pass failed, the fallback output failed its
\* normalization too, and build raised after two passes and one fallback
C28_Witness ==
    /\ bRound = 1 /\ ~bResult[1].ok
    /\ bResult[1].passes = 2 /\ bResult[1].fallback_calls = 1
    /\ bResult[1].err = "RoutineValidationError"

\* the steps of an input routine that pass the valid-ID filter
FilteredInputSteps(r) ==
    IF validIds = {} THEN InputRoutinesOfBuild[r].steps
    ELSE SelectSeq(InputRoutinesOfBuild[r].steps, LAMBDA step : step.exerciseId \in validIds)

\* the length of the longest prefix of steps that totals at most 210 seconds
LongestFittingPrefix(steps) ==
    LET fits == {k \in 0..Len(steps) : SumLimit(SubSeq(steps, 1, k)) <= 210}
    IN CHOOSE k \in fits : \A j \in fits : j <= k

\* C29: when the filtered steps of a routine total more than 210 seconds,
\* the routine build returns holds exactly the longest prefix of them that
\* totals at most 210 seconds, each step unchanged but numbered by position
\* from 1; every step after that prefix is dropped, also one that would fit
C29_TrimKeepsLongestPrefix ==
    (bRound = 1 /\ BuildReturned /\ bResult[1].passes = 1) =>
        \A r \in 1..Len(InputRoutinesOfBuild) :
            LET steps == FilteredInputSteps(r)
                n == LongestFittingPrefix(steps)
                kept == ReturnedRoutines[r].steps
            IN SumLimit(steps) > 210 =>
                  /\ Len(kept) = n
                  /\ \A i \in 1..n :
                        /\ kept[i].exerciseId = steps[i].exerciseId
                        /\ kept[i].limitTime = steps[i].limitTime
                        /\ kept[i].type = steps[i].type
                        /\ kept[i].durationTime = steps[i].durationTime
                        /\ kept[i].targetReps = steps[i].targetReps
                        /\ kept[i].stepOrder = i

\* C29 witness: steps of 90, 220 and 60 seconds: the second does not fit,
\* and the third is dropped with it although 90 + 60 would fit
C29_Witness ==
    /\ bRound = 1 /\ BuildReturned /\ bResult[1].passes = 1 /\ validIds = {}
    /\ Len(InputRoutinesOfBuild) = 1
    /\ Len(InputRoutinesOfBuild[1].steps) = 3
    /\ InputRoutinesOfBuild[1].steps[1].limitTime = 90
    /\ InputRoutinesOfBuild[1].steps[2].limitTime = 220
    /\ InputRoutinesOfBuild[1].steps[3].limitTime = 60
    /\ InputRoutinesOfBuild[1].steps[1].stepOrder # 1
    /\ Len(ReturnedRoutines[1].steps) = 1
    /\ ReturnedRoutines[1].steps[1].stepOrder = 1

\* the catalog holds enough exercises not used by steps to add the seconds
\* missing to 150 with steps of 60 seconds each
EnoughFillers(steps) ==
    Cardinality(CatalogIds \ IdsOf(steps)) * 60 >= 150 - SumLimit(steps)

\* out is steps followed by filler steps for exercises that steps does not
\* use, totals between 150 and 210 seconds, and is numbered from 1
FilledUp(steps, out) ==
    /\ Len(out) > Len(steps)
    /\ \A i \in 1..Len(steps) :
          /\ out[i].exerciseId = steps[i].exerciseId
          /\ out[i].limitTime = steps[i].limitTime
    /\ \A i \in (Len(steps) + 1)..Len(out) :
          /\ out[i].exerciseId \notin IdsOf(steps)
          /\ out[i].exerciseId \in CatalogIds
    /\ SumLimit(out) >= 150 /\ SumLimit(out) <= 210
    /\ \A i \in 1..Len(out) : out[i].stepOrder = i

\* C30: a routine whose (filtered) steps total T < 150 seconds, with enough
\* unused exercises in the fallback catalog, is returned by build with filler
\* steps appended after its own steps, none for an exercise it already uses,
\* a total of at least 150 and at most 210 seconds and all steps numbered
\* from 1; and for every T in 0..149 the time validation of a one-step
\* routine of T seconds gives such a result (examined once per catalog,
\* before the first build)
C30_FillReachesRange ==
    /\ (bRound = 1 /\ BuildReturned /\ bResult[1].passes = 1) =>
          \A r \in 1..Len(InputRoutinesOfBuild) :
              LET steps == FilteredInputSteps(r)
              IN (SumLimit(steps) < 150 /\ EnoughFillers(steps)) =>
                    FilledUp(steps, ReturnedRoutines[r].steps)
    /\ bRound = 0 =>
          \A T \in 0..149 :
              LET steps == <<InputStep(1, T, 7)>>
              IN EnoughFillers(steps) =>
                    FilledUp(steps, validate_total_time(reorder_steps(steps), catalog))

\* C30 witness: one step of 60 seconds for exercise 1 was filled up with
\* two filler steps for other exercises, 180 seconds in all
C30_Witness ==
    /\ bRound = 1 /\ BuildReturned /\ bResult[1].passes = 1
    /\ Len(InputRoutinesOfBuild) = 1
    /\ Len(InputRoutinesOfBuild[1].steps) = 1
    /\ InputRoutinesOfBuild[1].steps[1].limitTime = 60
    /\ InputRoutinesOfBuild[1].steps[1].exerciseId = 1
    /\ Len(ReturnedRoutines[1].steps) = 3
    /\ SumLimit(ReturnedRoutines[1].steps) = 180

(***************************************************************************)
(* Further properties of one request (checked under SpecRequest)           *)
(***************************************************************************)
\* a generate call that returns JSON matching the schema with no routines
EmptyListOutcome == [raises |-> FALSE, kind |-> "", text |-> TextNoRoutines]

C21_SnapshotIsLatestData ==
    LET n == Len(repoLog)
    IN (/\ n >= 2
        /\ repoLog[n].op = "load" /\ repoLog[n].result.ok
        /\ repoLog[n - 1].op = "fetch_and_save_exercises" /\ repoLog[n - 1].result.ok)
       => /\ raw_data = exercisesFile[1]
          /\ exercise_ids = IdsOf(exercisesFile[1])

(***************************************************************************)
(* Properties of the HTTP API (checked under SpecApi)                      *)
(***************************************************************************)
\* the response is a FAILED RecommendationResponseV1 with an error message
IsFailedResponse(response) ==
    /\ response.status_code = 200
    /\ response.content.status = "FAILED"
    /\ response.content.errorMessage # None
    /\ response.content.errorMessage # Some("")

\* C22: every request in which an error of the recommendation logic (an LLM
\* error, a RoutineValidationError, a dependency that is not ready) was
\* raised inside the handler is answered with a FAILED response built by
\* build_failed with a non-empty errorMessage, never with an error status
C22_LogicErrorsGiveFailedResponse ==
    \A i \in 1..Len(apiLog) :
        (/\ apiLog[i].raised # None
         /\ AppClassesOf(apiLog[i].raised[1]) \cap ExpectedServiceError # {})
        => IsFailedResponse(apiLog[i].response)

\* C23: every request whose body violates the request schema (a missing
\* required field, a negative routineCount, a selectedOptionSortOrder below
\* 1, a field that is not allowed) is answered with HTTP 422
C23_SchemaViolationsGive422 ==
    \A i \in 1..Len(apiLog) :
        UserInputV1Errors(apiLog[i].body) # {} => apiLog[i].response.status_code = 422

(***************************************************************************)
(* Properties of normalization over the input (checked under SpecBuilder)  *)
(***************************************************************************)
\* two steps that differ at most in their stepOrder
SameContent(a, b) ==
    /\ a.exerciseId = b.exerciseId /\ a.type = b.type /\ a.limitTime = b.limitTime
    /\ a.durationTime = b.durationTime /\ a.targetReps = b.targetReps

\* C31: the steps of a routine build returns from the input are the
\* (filtered) input steps in their list order, whatever stepOrder values
\* they carried: position i of the returned routine holds the i-th of them
\* with stepOrder i, and every step beyond them is a filler step for a
\* catalog exercise, so that fillers come after all input steps
C31_InputOrderKept ==
    (bRound = 1 /\ BuildReturned /\ bResult[1].passes = 1) =>
        \A r \in 1..Len(InputRoutinesOfBuild) :
            LET steps == FilteredInputSteps(r)
                out == ReturnedRoutines[r].steps
            IN /\ \A i \in 1..Min(Len(steps), Len(out)) :
                     SameContent(out[i], steps[i]) /\ out[i].stepOrder = i
               /\ \A i \in (Len(steps) + 1)..Len(out) :
                     /\ out[i].stepOrder = i
                     /\ \E k \in 1..Len(catalog) :
                           SameContent(out[i], create_step(catalog[k], i))

\* C31 witness: input steps for exercises 2 and 1 numbered 4 and 2 came
\* back in that list order numbered 1 and 2, followed by a filler step
C31_Witness ==
    /\ bRound = 1 /\ BuildReturned /\ bResult[1].passes = 1
    /\ Len(InputRoutinesOfBuild) = 1
    /\ Len(InputRoutinesOfBuild[1].steps) = 2
    /\ InputRoutinesOfBuild[1].steps[1].exerciseId = 2
    /\ InputRoutinesOfBuild[1].steps[1].stepOrder = 4
    /\ InputRoutinesOfBuild[1].steps[2].exerciseId = 1
    /\ InputRoutinesOfBuild[1].steps[2].stepOrder = 2
    /\ Len(ReturnedRoutines[1].steps) = 3
    /\ ReturnedRoutines[1].steps[1].exerciseId = 2
    /\ ReturnedRoutines[1].steps[2].exerciseId = 1
    /\ ReturnedRoutines[1].steps[3].exerciseId = 3

(***************************************************************************)
(* Properties of the pain scores and the rotation (SpecRuleBased)          *)
(***************************************************************************)
\* the pain scores recommend_routines extracted from the survey of the call
PainScores == extract_pain_scores(rSurvey[1])

\* the body parts that have a pain score
ScoredParts == {PainScores[i].part : i \in 1..Len(PainScores)}

\* the score recorded for a body part that has one
ScoreOf(part) == (CHOOSE i \in 1..Len(PainScores) : PainScores[i].part = part)

\* C32: after a recommend_routines call, every answer whose question text
\* contains one of the four keywords has its ordinal recorded for the body
\* part that keyword maps to: that part has a score, and the score is at
\* least the answer's ordinal
C32_KeywordScoresMappedPart ==
    rResult # None =>
        \A a \in 1..Len(rSurvey[1].survey), k \in 1..Len(KEYWORD_TO_BODY_PART) :
            Contains(KEYWORD_TO_BODY_PART[k].keyword, rSurvey[1].survey[a].questionContent) =>
                /\ KEYWORD_TO_BODY_PART[k].body_part \in ScoredParts
                /\ PainScores[ScoreOf(KEYWORD_TO_BODY_PART[k].body_part)].score
                      >= rSurvey[1].survey[a].selectedOptionSortOrder

\* the ordinals of the answers whose question contains a keyword mapped to
\* the body part
MatchingOrdinals(part) ==
    {rSurvey[1].survey[a].selectedOptionSortOrder :
        a \in {b \in 1..Len(rSurvey[1].survey) :
                 \E k \in 1..Len(KEYWORD_TO_BODY_PART) :
                    /\ KEYWORD_TO_BODY_PART[k].body_part = part
                    /\ Contains(KEYWORD_TO_BODY_PART[k].keyword,
                                rSurvey[1].survey[b].questionContent)}}

\* C33: after a recommend_routines call, a body part matched by at least
\* one answer has as its score the largest ordinal among the matching
\* answers (not their sum, whatever the order of the answers), and a body
\* part matched by no answer has no score and is not in the priority list
C33_ScoreIsMaxOfMatching ==
    rResult # None =>
        \A p \in 1..Len(BodyPart) :
            LET ordinals == MatchingOrdinals(BodyPart[p])
                priority == sorted_parts_of(PainScores)
            IN IF ordinals = {}
               THEN /\ BodyPart[p] \notin ScoredParts
                    /\ \A i \in 1..Len(priority) : priority[i].part # BodyPart[p]
               ELSE /\ BodyPart[p] \in ScoredParts
                    /\ \A o \in ordinals : PainScores[ScoreOf(BodyPart[p])].score >= o
                    /\ PainScores[ScoreOf(BodyPart[p])].score \in ordinals

\* a list rotated left by i positions with wrap-around
RotatedLeft(list, i) ==
    IF list = <<>> THEN <<>>
    ELSE [j \in 1..Len(list) |-> list[((j - 1 + i) % Len(list)) + 1]]

\* C34: after a recommend_routines call, for every routine index i below
\* the routine count the body-part order of routine i is the priority list
\* rotated left by i positions with wrap-around (also for i above the number
\* of prioritized parts), the returned routine i names the first part of
\* that order, and with two or more prioritized parts the first two routines
\* name different parts
C34_RotationWrapsAround ==
    rResult # None =>
        LET priority == sorted_parts_of(PainScores)
            routine_count == Max(1, rSurvey[1].routineCount)
        IN /\ \A i \in 0..(routine_count - 1) :
                 /\ rotated_parts_of(priority, i) = RotatedLeft(priority, i)
                 /\ (rResult[1].ok /\ priority # <<>>) =>
                       rResult[1].val.routines[i + 1].reason
                          = RotatedLeft(priority, i)[1].part
           /\ (rResult[1].ok /\ Len(priority) >= 2 /\ routine_count >= 2) =>
                 rResult[1].val.routines[1].reason # rResult[1].val.routines[2].reason

\* C35: every routine a recommend_routines call returns holds no exercise
\* twice; over a catalog of at least three distinct exercises its steps
\* total between 150 and 210 seconds, and over a smaller catalog it holds
\* each catalog exercise exactly once
C35_RuleRoutineTimeAndDistinct ==
    (rResult # None /\ rResult[1].ok) =>
        \A r \in 1..Len(rResult[1].val.routines) :
            LET steps == rResult[1].val.routines[r].steps
            IN /\ \A i, j \in 1..Len(steps) :
                     steps[i].exerciseId = steps[j].exerciseId => i = j
               /\ Cardinality(CatalogIds) >= 3 =>
                     (SumLimit(steps) >= 150 /\ SumLimit(steps) <= 210)
               /\ Cardinality(CatalogIds) < 3 => IdsOf(steps) = CatalogIds

\* C35 witness: over a catalog that lists exercise 1 twice, a survey with a
\* neck answer gave a routine of exercises 1, 3 and 2, 180 seconds in all;
\* and over a catalog of two exercises a routine of both
C35_Witness ==
    /\ rResult # None /\ rResult[1].ok
    /\ catalog = <<Ex1, Ex2, Ex1, Ex3>>
    /\ ScoredParts = {"neck"}
    /\ rSurvey[1].routineCount = 2
    /\ Len(rResult[1].val.routines[2].steps) = 3
    /\ rResult[1].val.routines[2].steps[1].exerciseId = 1
    /\ rResult[1].val.routines[2].steps[2].exerciseId = 3
    /\ rResult[1].val.routines[2].steps[3].exerciseId = 2
    /\ SumLimit(rResult[1].val.routines[2].steps) = 180

(***************************************************************************)
(* Properties of get_filler_steps (checked under SpecRuleBased)            *)
(***************************************************************************)
\* the catalog exercises whose ID is not excluded, in catalog order
NonExcluded == SelectSeq(catalog, LAMBDA e : e.exerciseId \notin fillerCall[1].exclude_ids)

\* C36: the steps a get_filler_steps call returns are steps for the first
\* exercises of the catalog that are not excluded, in catalog order and
\* numbered from 1; their budgets reach the target or every non-excluded
\* exercise is used, no shorter prefix reaches the target, and the list is
\* empty when the target is <= 0 or every exercise is excluded
C36_FillerIsShortestPrefix ==
    fillerCall # None =>
        LET steps == fillerCall[1].steps
            target_time == fillerCall[1].target_time
        IN /\ Len(steps) <= Len(NonExcluded)
           /\ \A i \in 1..Len(steps) :
                 /\ steps[i].exerciseId = NonExcluded[i].exerciseId
                 /\ steps[i].type = NonExcluded[i].type
                 /\ steps[i].stepOrder = i
                 /\ steps[i].exerciseId \notin fillerCall[1].exclude_ids
           /\ SumLimit(steps) >= target_time \/ Len(steps) = Len(NonExcluded)
           /\ \A k \in 0..(Len(steps) - 1) : SumLimit(SubSeq(steps, 1, k)) < target_time
           /\ (target_time <= 0 \/ NonExcluded = <<>>) => steps = <<>>

\* C36 witness: with exercise 1 excluded and a target of 61 seconds, the
\* four-exercise catalog gave steps for exercises 2 and 3 and left 4 out
C36_Witness ==
    /\ fillerCall # None
    /\ catalog = <<Ex1, Ex2, Ex3, Ex4>>
    /\ fillerCall[1].target_time = 61
    /\ fillerCall[1].exclude_ids = {1}
    /\ Len(fillerCall[1].steps) = 2
    /\ fillerCall[1].steps[1].exerciseId = 2
    /\ fillerCall[1].steps[2].exerciseId = 3

(***************************************************************************)
(* Properties of the repository under concurrency (SpecConcurrent)         *)
(***************************************************************************)
\* C37: under every interleaving of load() calls and property reads, the ID
\* set and the record list a reader obtained belong to the same load (the
\* IDs are those of the records), and while the repository is marked loaded
\* its ID set and its record list are values some load() has assigned
C37_ReaderSeesOneSnapshot ==
    /\ \A t \in 1..Len(threads) :
          (threads[t].ids # None /\ threads[t].raw # None) =>
              threads[t].ids[1] = IdsOf(threads[t].raw[1])
    /\ loaded =>
          /\ \E t \in 1..Len(threads) :
                threads[t].data # None /\ exercise_ids = IdsOf(threads[t].data[1])
          /\ \E t \in 1..Len(threads) :
                threads[t].data # None /\ raw_data = threads[t].data[1]

(***************************************************************************)
(* Frame of request processing (checked under SpecRequest)                 *)
(***************************************************************************)
\* what the instances share between requests: the repository cache, the
\* service's retry count and fallback flag, the catalog the recommender
\* groups by body part and the builder's valid-ID set
SharedState == <<loaded, exercise_ids, raw_data, maxRetries, fallbackEnabled, catalog, validIds>>

FromInput(routine) == routine.reason = "llm"

\* some routine of the input fails its validation
SomeInputRoutineInvalid ==
    \/ InputRoutinesOfBuild = <<>>
    \/ \E r \in 1..Len(InputRoutinesOfBuild) :
          ~validate_single_routine(InputRoutinesOfBuild[r], r, validIds, catalog).ok

\* C39: the routines of a response build returns are either the normalized
\* input routines, as many as the input has and in its order, or routines
\* of the rule-based fallback only; when one input routine is invalid, none
\* of the input routines is returned
C39_AllOrNothing ==
    (bRound = 1 /\ BuildReturned) =>
        /\ \/ /\ \A k \in 1..Len(ReturnedRoutines) : FromInput(ReturnedRoutines[k])
              /\ Len(ReturnedRoutines) = Len(InputRoutinesOfBuild)
              /\ \A r \in 1..Len(InputRoutinesOfBuild) :
                    ReturnedRoutines[r] =
                        validate_single_routine(InputRoutinesOfBuild[r], r,
                                                validIds, catalog).val
           \/ /\ \A k \in 1..Len(ReturnedRoutines) : ~FromInput(ReturnedRoutines[k])
              /\ bSurvey # None
              /\ ReturnedRoutines =
                    validate_and_fix(rule_recommend_routines(bSurvey[1], catalog).val.routines,
                                     validIds, catalog).val
        /\ SomeInputRoutineInvalid =>
              \A k \in 1..Len(ReturnedRoutines) : ~FromInput(ReturnedRoutines[k])

\* C39 witness: of two input routines the first is valid and the second
\* has only a step for an unknown exercise; the response holds the two
\* routines of the fallback
C39_Witness ==
    /\ bRound = 1 /\ BuildReturned
    /\ validIds = {1, 2}
    /\ Len(InputRoutinesOfBuild) = 2
    /\ IdsOf(InputRoutinesOfBuild[1].steps) = {1}
    /\ IdsOf(InputRoutinesOfBuild[2].steps) = {9}
    /\ bSurvey # None /\ bSurvey[1].routineCount = 2
    /\ Len(ReturnedRoutines) = 2
    /\ \A k \in 1..2 : ~FromInput(ReturnedRoutines[k])

(***************************************************************************)
(* The empty valid-ID set (checked under SpecBuilder)                      *)
(***************************************************************************)
\* C40: a builder whose valid-ID set is empty filters no step by its ID:
\* build of a non-empty output never calls the fallback and never ends in a
\* RoutineValidationError, and every routine it returns starts with the
\* steps of its input routine, unknown IDs included, up to the prefix the
\* time limit keeps
C40_EmptyValidIdsSkipFilter ==
    (bRound = 1 /\ validIds = {} /\ InputRoutinesOfBuild # <<>>) =>
        /\ bResult[1].fallback_calls = 0
        /\ bResult[1].ok \/ bResult[1].err # "RoutineValidationError"
        /\ bResult[1].ok =>
              /\ Len(ReturnedRoutines) = Len(InputRoutinesOfBuild)
              /\ \A r \in 1..Len(InputRoutinesOfBuild) :
                    LET steps == InputRoutinesOfBuild[r].steps
                        out == ReturnedRoutines[r].steps
                        kept == IF SumLimit(steps) > 210 THEN LongestFittingPrefix(steps)
                                ELSE Len(steps)
                    IN /\ Len(out) >= kept
                       /\ \A i \in 1..kept : SameContent(out[i], steps[i])

\* C40 witness: a routine with steps for exercise 1 and for exercise 9,
\* which no catalog holds, came back with both steps
C40_Witness ==
    /\ bRound = 1 /\ validIds = {} /\ BuildReturned
    /\ catalog # <<>>
    /\ Len(InputRoutinesOfBuild) = 1
    /\ Len(InputRoutinesOfBuild[1].steps) = 2
    /\ InputRoutinesOfBuild[1].steps[1].exerciseId = 1
    /\ InputRoutinesOfBuild[1].steps[2].exerciseId = 9
    /\ bResult[1].passes = 1
    /\ ReturnedRoutines[1].steps[1].exerciseId = 1
    /\ ReturnedRoutines[1].steps[2].exerciseId = 9

=============================================================================
